---------------------------- MODULE Spec2Model ----------------------------
(***************************************************************************)
(* Routing and coordination core of the nanobot multi-agent runtime:       *)
(* session store, group-chat gating, agent loop and cross-process relay.   *)
(*                                                                         *)
(* Specifications defined here:                                            *)
(*   SpecGate   one gating call (_should_respond / GroupChatFilter) on an  *)
(*              arbitrary message, session and configuration               *)
(*   SpecCount  Session.count_trailing_bots on bounded session logs        *)
(*   Spec       the agent loop consuming the inbound bus                   *)
(*   SpecChain  the agent loop fed with the messages of one group chat     *)
(*   SpecDirect the agent loop with process_direct calls made beside it    *)
(*   SpecRelay  the relay log with one polling subscriber                  *)
(*   SpecRelayFair  SpecRelay with a subscriber that keeps running         *)
(*   SpecRouter a MessageRouter evaluating its chain of filters            *)
(*   SpecFeishu the Feishu channel forwarding events to the inbound bus    *)
(*   SpecRelayFile  the relay log line by line, with lines that are not    *)
(*              envelopes and lines still being written                    *)
(*   SpecReaders    the relay log read by two subscribers, each with its   *)
(*              own offset file                                            *)
(*   SpecInject     _handle_message statement by statement, with a         *)
(*              transcript append that can fail                            *)
(*   SpecStop   the agent loop's run() with stop() called beside it, under *)
(*              the fairness of its scheduling                             *)
(*   SpecStore  GroupTranscriptStore: appends to one transcript file and   *)
(*              get_recent calls on it                                     *)
(***************************************************************************)
EXTENDS Integers, Sequences, FiniteSets, TLC

VARIABLES
    gate,       \* SpecGate: the gating call under way
    cnt,        \* SpecCount: a session log and the count taken of it
    config,     \* AgentLoop constructor arguments
    inbound,    \* MessageBus inbound queue
    outbound,   \* MessageBus outbound queue
    sessions,   \* SessionManager._cache: session key -> messages
    disk,       \* session files written by SessionManager.save
    inflight,   \* _process_message calls suspended at an await
    enqueued,   \* history: every message published inbound, in order
    done,       \* history: message id -> how its processing ended
    relayLog,   \* relay/outbound.jsonl: the published lines
    offsetFile, \* relay/offsets/<agent_name>.txt: agent name -> offset
    subscriber, \* the RelaySubscriber of agent Y and its process
    injected,   \* history: what the subscriber published on its inbound bus
    transcript, \* the group transcript lines the subscriber appended
    groups,     \* groups.json: the configured members
    router,     \* SpecRouter: a MessageRouter, its chain and the call under way
    feishu,     \* SpecFeishu: the Feishu channel and its event handlers
    rfile,      \* SpecRelayFile: outbound.jsonl line by line and its reader
    run,        \* SpecStop: AgentLoop._running and where run() stands
    tlog        \* SpecStore: a group transcript file and the last get_recent

agentVars == <<config, inbound, outbound, sessions, disk, inflight, enqueued, done>>
relayVars == <<relayLog, offsetFile, subscriber, injected, transcript, groups>>
auxVars == <<router, feishu, rfile, run, tlog>>
vars == <<gate, cnt, agentVars, relayVars, auxVars>>

\* ------------------------------------------------------------------------
\* Python dict access: d.get(k, default)
\* ------------------------------------------------------------------------
Get(d, k, default) ==
    IF k \in DOMAIN d THEN d[k] ELSE default

\* One optional key of a dict literal; "absent" leaves the key out.
Opt(k, v) ==
    IF v = "absent" THEN <<>> ELSE (k :> v)

\* The same for a boolean key, written "true" / "false" / "absent".
OptBool(k, v) ==
    IF v = "absent" THEN <<>> ELSE (k :> (v = "true"))

\* ------------------------------------------------------------------------
\* Session entries (session/manager.py)
\* ------------------------------------------------------------------------
\* add_message: role, content, optional sender_type and sender.  `re` is a
\* history field naming the inbound message the entry was written for.
Entry(role, content, sender_type, sender, re) ==
    [role |-> role, content |-> content, sender_type |-> sender_type,
     sender |-> sender, re |-> re]

add_message(messages, role, content, sender_type, sender, re) ==
    Append(messages, Entry(role, content, sender_type, sender, re))

max_scan == 30

\* m.get("sender_type", "human"): the key is left out when sender_type is None
SenderTypeOf(m) ==
    IF m.sender_type = "none" THEN "human" ELSE m.sender_type

IsBotTurnAssistantOnly(m) ==
    m.role = "assistant"

IsBotTurn(m) ==
    \/ m.role = "assistant"
    \/ m.role = "user" /\ SenderTypeOf(m) = "bot"

\* messages[-n:] if len(messages) > n else messages
LastN(messages, n) ==
    IF Len(messages) > n
    THEN SubSeq(messages, Len(messages) - n + 1, Len(messages))
    ELSE messages

RECURSIVE ScanBack(_, _)
\* the reversed() loop: walk from index i towards the head until the break
ScanBack(recent, i) ==
    IF i = 0 THEN 0
    ELSE IF IsBotTurn(recent[i]) THEN 1 + ScanBack(recent, i - 1)
    ELSE 0

count_trailing_bots_scan(messages, scan) ==
    LET recent == LastN(messages, scan)
    IN  ScanBack(recent, Len(recent))

count_trailing_bots(messages) ==
    count_trailing_bots_scan(messages, max_scan)


\* ------------------------------------------------------------------------
\* Strings as tuples of characters (str.upper, str.strip, in, rfind)
\* ------------------------------------------------------------------------
UpperChar(c) ==
    CASE c = "y" -> "Y" [] c = "e" -> "E" [] c = "s" -> "S"
      [] c = "n" -> "N" [] c = "o" -> "O" [] OTHER -> c

Upper(s) ==
    [i \in 1..Len(s) |-> UpperChar(s[i])]

IsSpace(c) ==
    c \in {" ", "\n"}

RECURSIVE LStrip(_)
LStrip(s) ==
    IF s # <<>> /\ IsSpace(Head(s)) THEN LStrip(Tail(s)) ELSE s

RECURSIVE RStrip(_)
RStrip(s) ==
    IF s # <<>> /\ IsSpace(s[Len(s)]) THEN RStrip(SubSeq(s, 1, Len(s) - 1)) ELSE s

Strip(s) ==
    RStrip(LStrip(s))

\* positions (0-based, as str.find reports them) where pat occurs in s
Occurrences(s, pat) ==
    {i \in 0..(Len(s) - Len(pat)) : SubSeq(s, i + 1, i + Len(pat)) = pat}

Contains(s, pat) ==
    Occurrences(s, pat) # {}

\* s.rfind(pat): highest index, -1 when pat does not occur
RFind(s, pat) ==
    IF Occurrences(s, pat) = {} THEN -1
    ELSE CHOOSE i \in Occurrences(s, pat) : \A j \in Occurrences(s, pat) : j <= i

YES == <<"Y", "E", "S">>
NO == <<"N", "O">>

\* ------------------------------------------------------------------------
\* Gating (agent/loop.py and agent/routing/group_chat.py)
\* ------------------------------------------------------------------------
\* AgentLoop._should_respond, the from_bot branch
LoopBotGateLate(meta, depth, cfg) ==
    IF depth > cfg.max_bot_reply_depth THEN "SKIP"
    ELSE IF ~Get(meta, "is_mentioned", FALSE) THEN "SKIP"
    ELSE IF \/ Get(meta, "is_mentioned", TRUE) /\ depth <= cfg.bot_reply_llm_threshold
            \/ ~cfg.bot_reply_llm_check
         THEN "RESPOND"
         ELSE "LLM"

LoopBotGateMentionOptional(meta, depth, cfg) ==
    IF depth >= cfg.max_bot_reply_depth THEN "SKIP"
    ELSE IF \/ Get(meta, "is_mentioned", TRUE) /\ depth <= cfg.bot_reply_llm_threshold
            \/ ~cfg.bot_reply_llm_check
         THEN "RESPOND"
         ELSE "LLM"

LoopBotGate(meta, depth, cfg) ==
    IF depth >= cfg.max_bot_reply_depth THEN "SKIP"
    ELSE IF ~Get(meta, "is_mentioned", FALSE) THEN "SKIP"
    ELSE IF \/ Get(meta, "is_mentioned", TRUE) /\ depth <= cfg.bot_reply_llm_threshold
            \/ ~cfg.bot_reply_llm_check
         THEN "RESPOND"
         ELSE "LLM"

\* AgentLoop._should_respond, the branch of a message that is not from_bot
LoopHumanGateOpenOnly(meta) ==
    IF Get(meta, "group_policy", "open") = "open" THEN "RESPOND" ELSE "LLM"

LoopHumanGate(meta) ==
    IF Get(meta, "group_policy", "open") = "open" \/ Get(meta, "is_mentioned", TRUE)
    THEN "RESPOND"
    ELSE "LLM"

LoopPreGateDepthOfSession(meta, messages, cfg) ==
    IF Get(meta, "chat_type", "absent") # "group" THEN "RESPOND"
    ELSE IF Get(meta, "from_bot", FALSE)
         THEN LoopBotGate(meta, count_trailing_bots(messages), cfg)
         ELSE LoopHumanGate(meta)

\* AgentLoop._should_respond up to its first suspension: the decision, or
\* "LLM" when it goes on to call the provider.
LoopPreGate(meta, messages, cfg) ==
    IF Get(meta, "chat_type", "absent") # "group" THEN "RESPOND"
    ELSE IF Get(meta, "from_bot", FALSE)
         THEN LoopBotGate(meta, count_trailing_bots(messages) + 1, cfg)
         ELSE LoopHumanGate(meta)

\* GroupChatFilter.should_respond, the from_bot branch
FilterBotGate(meta, depth, cfg) ==
    LET is_mentioned == Get(meta, "is_mentioned", FALSE)
    IN  IF depth >= cfg.max_bot_reply_depth THEN "SKIP"
        ELSE IF ~is_mentioned THEN "SKIP"
        ELSE IF is_mentioned /\ depth <= cfg.bot_reply_llm_threshold THEN "RESPOND"
        ELSE "LLM"

\* GroupChatFilter.should_respond, the branch of a message that is not from_bot
FilterHumanGate(meta) ==
    IF Get(meta, "group_policy", "open") = "open" \/ Get(meta, "is_mentioned", FALSE)
    THEN "RESPOND"
    ELSE "LLM"

FilterPreGateGatesUntyped(meta, messages, cfg) ==
    IF Get(meta, "chat_type", "group") # "group" THEN "ABSTAIN"
    ELSE IF Get(meta, "from_bot", FALSE)
         THEN FilterBotGate(meta, count_trailing_bots(messages) + 1, cfg)
         ELSE FilterHumanGate(meta)

\* GroupChatFilter.should_respond up to its first suspension; "ABSTAIN" is
\* the None it returns for messages that are not its concern.
FilterPreGate(meta, messages, cfg) ==
    IF Get(meta, "chat_type", "absent") # "group" THEN "ABSTAIN"
    ELSE IF Get(meta, "from_bot", FALSE)
         THEN FilterBotGate(meta, count_trailing_bots(messages) + 1, cfg)
         ELSE FilterHumanGate(meta)

\* MessageRouter.should_respond over a chain holding the one filter: the
\* first answer that is not None, else True.
RouterDecision(filterAnswer) ==
    IF filterAnswer = "ABSTAIN" THEN "RESPOND" ELSE filterAnswer

LlmVerdictDefaultYes(resp, from_bot) ==
    LET answer == Upper(Strip(Strip(resp.reasoning) \o <<"\n">> \o Strip(resp.content)))
    IN  IF resp.raises \/ answer = <<>> THEN TRUE
        ELSE Contains(answer, YES)
             /\ (~Contains(answer, NO) \/ RFind(answer, YES) > RFind(answer, NO))

\* _llm_should_respond putting the content right after the reasoning
LlmVerdictUnseparated(resp, from_bot) ==
    LET default_respond == ~from_bot
        answer == Upper(Strip(Strip(resp.reasoning) \o Strip(resp.content)))
        should == Contains(answer, YES)
                  /\ (~Contains(answer, NO) \/ RFind(answer, YES) > RFind(answer, NO))
    IN  IF resp.raises THEN default_respond
        ELSE IF answer = <<>> THEN default_respond
        ELSE should

\* _llm_should_respond from the provider's reply onwards; resp.raises is
\* the provider call raising.
LlmVerdict(resp, from_bot) ==
    LET default_respond == ~from_bot
        content == Strip(resp.content)
        reasoning == Strip(resp.reasoning)
        joined == Strip(reasoning \o <<"\n">> \o content)
        combined == IF joined # <<>> THEN joined
                    ELSE IF content # <<>> THEN content ELSE reasoning
        answer == Upper(combined)
        should == Contains(answer, YES)
                  /\ (~Contains(answer, NO) \/ RFind(answer, YES) > RFind(answer, NO))
    IN  IF resp.raises THEN default_respond
        ELSE IF answer = <<>> THEN default_respond
        ELSE should

Verdict(b) ==
    IF b THEN "RESPOND" ELSE "SKIP"


\* ------------------------------------------------------------------------
\* Inputs of a gating call
\* ------------------------------------------------------------------------
MaxDepthCfg == 3        \* max_bot_reply_depth ranges over 1..MaxDepthCfg
MaxThresholdCfg == 2    \* bot_reply_llm_threshold ranges over 0..MaxThresholdCfg
MaxGatePairs == 2       \* session logs of up to this many user/assistant pairs

\* metadata dicts as the channel or the relay subscriber fill them in
MkMeta(ct, fb, im, gp) ==
    Opt("chat_type", ct) @@ OptBool("from_bot", fb)
      @@ OptBool("is_mentioned", im) @@ Opt("group_policy", gp)

Tri == {"true", "false", "absent"}

\* the relay subscriber, the one source of from_bot, always sets chat_type
GateMetaArgs ==
    {q \in {"group", "p2p", "topic", "absent"} \X Tri \X Tri
                \X {"open", "mention", "auto", "absent"} :
        q[2] = "true" => q[1] # "absent"}

GateMetas ==
    {MkMeta(q[1], q[2], q[3], q[4]) : q \in GateMetaArgs}

GateCfgs ==
    [max_bot_reply_depth : 1..MaxDepthCfg,
     bot_reply_llm_threshold : 0..MaxThresholdCfg,
     bot_reply_llm_check : BOOLEAN]

\* the two entries _process_message appends for one message
TurnPair(sender_type) ==
    <<Entry("user", <<"m">>, sender_type, IF sender_type = "bot" THEN "peer" ELSE "none", "m"),
      Entry("assistant", <<"r">>, "none", "none", "m")>>

RECURSIVE PairedLogs(_)
PairedLogs(n) ==
    IF n = 0 THEN {<<>>}
    ELSE PairedLogs(n - 1)
         \cup {l \o TurnPair(st) : l \in PairedLogs(n - 1), st \in {"human", "bot", "system"}}

GateSessions == PairedLogs(MaxGatePairs)

Str(w) ==
    CASE w = "" -> <<>>
      [] w = "YES" -> <<"Y", "E", "S">>
      [] w = "NO" -> <<"N", "O">>
      [] w = "yes" -> <<"y", "e", "s">>
      [] w = "NO YES" -> <<"N", "O", " ", "Y", "E", "S">>
      [] w = "YES NO" -> <<"Y", "E", "S", " ", "N", "O">>
      [] w = " " -> <<" ">>
      [] w = "YES N" -> <<"Y", "E", "S", " ", "N">>
      [] w = "O" -> <<"O">>
      [] w = "NO Y" -> <<"N", "O", " ", "Y">>
      [] w = "ES" -> <<"E", "S">>

\* what the provider can do with the YES/NO prompt
GateResponses ==
    {[raises |-> TRUE, content |-> <<>>, reasoning |-> <<>>]}
    \cup {[raises |-> FALSE, content |-> Str(c), reasoning |-> Str(r)] :
            c \in {"", "YES", "NO", "yes", " "}, r \in {"", "NO YES", "YES NO"}}
    \cup {[raises |-> FALSE, content |-> Str("O"), reasoning |-> Str("YES N")],
          [raises |-> FALSE, content |-> Str("ES"), reasoning |-> Str("NO Y")]}

GateIdle ==
    [pc |-> "idle", impl |-> "none", meta |-> <<>>, messages |-> <<>>,
     cfg |-> [max_bot_reply_depth |-> 1, bot_reply_llm_threshold |-> 0,
              bot_reply_llm_check |-> TRUE],
     decision |-> "none", calls |-> 0,
     resp |-> [raises |-> FALSE, content |-> <<>>, reasoning |-> <<>>]]

CntIdle ==
    [pc |-> "idle", messages |-> <<>>, k |-> 0, result |-> -1]

\* a MessageRouter as __init__ leaves it: no filter registered, no call made
RouterIdle ==
    [pc |-> "idle", filters |-> <<>>, evaluated |-> <<>>, decision |-> "none"]

\* a Feishu channel that has been handed no event yet. History fields:
\* `trace` lists, in the order they were made, the reactions, transcript
\* appends and inbound publishes with the number of the event they were
\* made for; `evicted` holds the ids the dedup cache has dropped
FeishuIdle ==
    [has_client |-> TRUE, group_policy |-> "mention", handed |-> <<>>,
     scheduled |-> <<>>, reacting |-> {}, processed |-> <<>>, published |-> <<>>,
     trace |-> <<>>, evicted |-> {}]

\* an empty outbound.jsonl, offset 0 on file, a subscriber yet to read
RelayFileIdle ==
    [lines |-> <<>>, tail |-> 0, offset |-> 0, batch |-> <<>>,
     returned |-> <<>>, processed |-> <<>>, injected |-> <<>>]

\* an AgentLoop as __init__ leaves it: _running False, run() not called.
\* `afterStop` is a history field: the messages run() consumed after a
\* stop() made while it was executing
RunIdle ==
    [running |-> FALSE, pc |-> "new", afterStop |-> 0]

\* no transcript file yet and no get_recent call made (n = -1)
StoreIdle ==
    [lines |-> <<>>, n |-> -1, result |-> <<>>]

AuxIdle ==
    /\ router = RouterIdle
    /\ feishu = FeishuIdle
    /\ rfile = RelayFileIdle
    /\ run = RunIdle
    /\ tlog = StoreIdle

SubscriberName == "Y"

\* a RelaySubscriber as __init__ leaves it, in a process that has just
\* started: nothing processed, the bot's open_id not fetched yet.
\* `recorded` is a history field: the offset this agent's reads last wrote.
\* `stage` is where _handle_message stands on the head of the batch.
NewSubscriber(instance) ==
    [up |-> TRUE, instance |-> instance, processed |-> <<>>, batch |-> <<>>,
     bot_open_id |-> "", crashes |-> 0, rereads |-> 0, recorded |-> 0,
     stage |-> "idle"]

\* an empty relay directory and a subscriber that has not polled yet
RelayIdle ==
    /\ relayLog = <<>>
    /\ offsetFile = (SubscriberName :> 0)
    /\ subscriber = NewSubscriber(1)
    /\ injected = <<>>
    /\ transcript = <<>>
    /\ groups = <<>>

DefaultCfg ==
    [max_bot_reply_depth |-> 8, bot_reply_llm_threshold |-> 3,
     bot_reply_llm_check |-> TRUE, max_iterations |-> 20]

\* the agent, constructed and not yet running
AgentIdle ==
    /\ config = DefaultCfg
    /\ inbound = <<>>
    /\ outbound = <<>>
    /\ sessions = <<>>
    /\ disk = <<>>
    /\ inflight = {}
    /\ enqueued = <<>>
    /\ done = <<>>

InitGate ==
    /\ gate \in {[GateIdle EXCEPT !.pc = "called", !.impl = i, !.meta = m,
                                  !.messages = l, !.cfg = c] :
                    i \in {"loop", "router"}, m \in GateMetas,
                    l \in GateSessions, c \in GateCfgs}
    /\ cnt = CntIdle
    /\ AuxIdle
    /\ AgentIdle
    /\ RelayIdle

PreGate(impl, meta, messages, cfg) ==
    IF impl = "loop" THEN LoopPreGate(meta, messages, cfg)
    ELSE FilterPreGate(meta, messages, cfg)

\* the call runs to its return, or to the provider call of the LLM gate
GateEnter ==
    /\ gate.pc = "called"
    /\ LET pre == PreGate(gate.impl, gate.meta, gate.messages, gate.cfg)
       IN  gate' = IF pre = "LLM"
                   THEN [gate EXCEPT !.pc = "llm", !.calls = @ + 1]
                   ELSE [gate EXCEPT !.pc = "returned",
                                     !.decision = RouterDecision(pre)]
    /\ UNCHANGED <<cnt, auxVars, agentVars, relayVars>>

\* the provider call of the LLM gate returns or raises
GateLlmReturn ==
    /\ gate.pc = "llm"
    /\ \E resp \in GateResponses :
         gate' = [gate EXCEPT
                    !.pc = "returned",
                    !.resp = resp,
                    !.decision = Verdict(LlmVerdict(resp, Get(gate.meta, "from_bot", FALSE)))]
    /\ UNCHANGED <<cnt, auxVars, agentVars, relayVars>>

NextGate ==
    \/ GateEnter
    \/ GateLlmReturn

SpecGate == InitGate /\ [][NextGate]_vars


\* ------------------------------------------------------------------------
\* Agent loop (agent/loop.py) on the message bus
\* ------------------------------------------------------------------------
MaxMsgs == 2            \* inbound messages published in one run
QueueCap == 2           \* messages waiting on the inbound queue
MaxToolCalls == 1       \* tool calls carried by one provider response
MaxIterCfg == 2         \* max_iterations ranges over 1..MaxIterCfg
MaxDepthLoop == 2       \* max_bot_reply_depth ranges over 1..MaxDepthLoop

FallbackReply == "I've completed processing but have no response to give."
BackgroundReply == "Background task completed."
ApologyReply == "Sorry, I encountered an error"

\* the depth cap and the iteration cap vary; SpecGate varies the rest
LoopCfgs ==
    [max_bot_reply_depth : 1..MaxDepthLoop,
     bot_reply_llm_threshold : {0},
     bot_reply_llm_check : BOOLEAN,
     max_iterations : 1..MaxIterCfg]

\* what the provider can do with the YES/NO prompt, in short
LoopGateResponses ==
    {[raises |-> TRUE, content |-> <<>>, reasoning |-> <<>>],
     [raises |-> FALSE, content |-> Str("YES"), reasoning |-> <<>>],
     [raises |-> FALSE, content |-> Str("NO"), reasoning |-> <<>>]}

MsgId(n) ==
    CASE n = 1 -> "m1" [] n = 2 -> "m2" [] n = 3 -> "m3" [] n = 4 -> "m4"
      [] OTHER -> "m5"

GroupChat == <<"g1">>

\* what channels, the relay subscriber and sub-agents publish inbound
LoopInputs ==
    {[channel |-> <<"feishu">>, sender_id |-> "u1", chat_id |-> GroupChat,
      metadata |-> MkMeta("group", "absent", im, gp)] :
        im \in {"true", "false"}, gp \in {"mention", "auto"}}
    \cup {[channel |-> <<"feishu">>, sender_id |-> "botX", chat_id |-> GroupChat,
           metadata |-> MkMeta("group", "true", im, "auto")
                          @@ ("sender_agent_name" :> "X")] :
            im \in {"true", "false"}}
    \cup {[channel |-> <<"feishu">>, sender_id |-> "botX", chat_id |-> GroupChat,
           metadata |-> MkMeta("group", "true", "true", "auto")]}
    \cup {[channel |-> <<"feishu">>, sender_id |-> "botX", chat_id |-> <<"botX">>,
           metadata |-> MkMeta("p2p", "true", "false", "auto")
                          @@ ("sender_agent_name" :> "X")],
          [channel |-> <<"cli">>, sender_id |-> "user", chat_id |-> <<"direct">>,
           metadata |-> <<>>],
          [channel |-> <<"system">>, sender_id |-> "subagent",
           chat_id |-> <<"feishu", ":", "g1">>, metadata |-> <<>>],
          [channel |-> <<"system">>, sender_id |-> "subagent",
           chat_id |-> <<"x">>, metadata |-> <<>>],
          [channel |-> <<"system">>, sender_id |-> "cron",
           chat_id |-> <<"slack", ":", "c1", ":", "t1">>, metadata |-> <<>>]}

InboundMessage(id, in) ==
    [id |-> id, channel |-> in.channel, sender_id |-> in.sender_id,
     chat_id |-> in.chat_id, content |-> <<id>>, metadata |-> in.metadata]

\* InboundMessage.session_key: f"{channel}:{chat_id}"
session_key(msg) ==
    msg.channel \o <<":">> \o msg.chat_id

OriginAtLastColon(chat_id) ==
    IF \E i \in 1..Len(chat_id) : chat_id[i] = ":"
    THEN LET i == CHOOSE i \in 1..Len(chat_id) :
                    /\ chat_id[i] = ":"
                    /\ \A j \in (i + 1)..Len(chat_id) : chat_id[j] # ":"
         IN  [channel |-> SubSeq(chat_id, 1, i - 1),
              chat_id |-> SubSeq(chat_id, i + 1, Len(chat_id))]
    ELSE [channel |-> <<"cli">>, chat_id |-> chat_id]

\* _process_system_message: chat_id.split(":", 1), or ("cli", chat_id)
Origin(chat_id) ==
    IF \E i \in 1..Len(chat_id) : chat_id[i] = ":"
    THEN LET i == CHOOSE i \in 1..Len(chat_id) :
                    /\ chat_id[i] = ":"
                    /\ \A j \in 1..(i - 1) : chat_id[j] # ":"
         IN  [channel |-> SubSeq(chat_id, 1, i - 1),
              chat_id |-> SubSeq(chat_id, i + 1, Len(chat_id))]
    ELSE [channel |-> <<"cli">>, chat_id |-> chat_id]

IsSystem(msg) ==
    msg.channel = <<"system">>

\* the key of the session a message is processed in
KeyOf(msg) ==
    IF IsSystem(msg)
    THEN Origin(msg.chat_id).channel \o <<":">> \o Origin(msg.chat_id).chat_id
    ELSE session_key(msg)

\* SessionManager.get_or_create: the cached log, else the saved one, else new
get_or_create(cache, files, key) ==
    IF key \in DOMAIN cache THEN cache
    ELSE cache @@ (key :> IF key \in DOMAIN files THEN files[key] ELSE <<>>)

\* meta.get("sender_agent_name") or msg.sender_id
SenderOf(msg) ==
    IF Get(msg.metadata, "sender_agent_name", "") = "" THEN msg.sender_id
    ELSE msg.metadata["sender_agent_name"]

PersistReplyFirst(log, msg, final) ==
    LET reply == add_message(log, "assistant", <<final>>, "none", "none", msg.id)
    IN  IF IsSystem(msg)
        THEN add_message(reply, "user",
                         <<"[System: ", msg.sender_id, "] ">> \o msg.content,
                         "system", "none", msg.id)
        ELSE IF Get(msg.metadata, "from_bot", FALSE)
             THEN add_message(reply, "user", msg.content, "bot", SenderOf(msg), msg.id)
             ELSE add_message(reply, "user", msg.content, "human", "none", msg.id)

\* the two add_message calls that close _process_message or
\* _process_system_message
Persist(log, msg, final) ==
    LET user ==
          IF IsSystem(msg)
          THEN add_message(log, "user",
                           <<"[System: ", msg.sender_id, "] ">> \o msg.content,
                           "system", "none", msg.id)
          ELSE IF Get(msg.metadata, "from_bot", FALSE)
               THEN add_message(log, "user", msg.content, "bot", SenderOf(msg), msg.id)
               ELSE add_message(log, "user", msg.content, "human", "none", msg.id)
    IN  add_message(user, "assistant", <<final>>, "none", "none", msg.id)

\* the OutboundMessage a finished call returns
Reply(msg, final) ==
    IF IsSystem(msg)
    THEN [channel |-> Origin(msg.chat_id).channel,
          chat_id |-> Origin(msg.chat_id).chat_id,
          content |-> final, metadata |-> <<>>, re |-> msg.id]
    ELSE [channel |-> msg.channel, chat_id |-> msg.chat_id,
          content |-> final, metadata |-> msg.metadata, re |-> msg.id]

\* the error OutboundMessage of run()
Apology(msg) ==
    [channel |-> msg.channel, chat_id |-> msg.chat_id,
     content |-> ApologyReply, metadata |-> <<>>, re |-> msg.id]

NoResp ==
    [raises |-> FALSE, content |-> <<>>, reasoning |-> <<>>]

\* a _process_message call: where it is suspended and what it has done;
\* `depth` is the depth _should_respond computed for a bot-origin group
\* message, 0 when it computed none; `seen` is the length of the session
\* when the call began; `gateCalls` counts the provider calls of the LLM
\* gate, `calls` those of the main turn
NewCall(origin, msg) ==
    [origin |-> origin, msg |-> msg, key |-> KeyOf(msg), pc |-> "start",
     decision |-> "none", gated |-> FALSE, gateResp |-> NoResp, depth |-> 0,
     seen |-> 0, gateCalls |-> 0,
     iteration |-> 0, pending |-> 0, calls |-> 0, allTools |-> TRUE]

\* what `done` keeps of a call that has ended
Ended(t, result, reply) ==
    [decision |-> t.decision, gated |-> t.gated, gateResp |-> t.gateResp,
     depth |-> t.depth, seen |-> t.seen, gateCalls |-> t.gateCalls,
     calls |-> t.calls, allTools |-> t.allTools, system |-> IsSystem(t.msg),
     result |-> result, reply |-> reply]

\* run() awaits _process_message before it consumes again
LoopNeverBusy(calls) ==
    FALSE

LoopBusy(calls) ==
    \E t \in calls : t.origin = "loop"

\* the call suspends at an await
Suspend(old, t, cache) ==
    /\ inflight' = (inflight \ old) \cup {t}
    /\ sessions' = cache
    /\ UNCHANGED <<disk, outbound, done>>

SkipMessageRecorded(old, t, cache) ==
    /\ inflight' = inflight \ old
    /\ sessions' = [cache EXCEPT ![t.key] =
                        add_message(@, "user", t.msg.content, "human", "none", t.msg.id)]
    /\ done' = done @@ (t.msg.id :> Ended(t, "skipped", "none"))
    /\ UNCHANGED <<disk, outbound>>

\* _should_respond returned False: _process_message returns None
SkipMessage(old, t, cache) ==
    /\ inflight' = inflight \ old
    /\ sessions' = cache
    /\ done' = done @@ (t.msg.id :> Ended(t, "skipped", "none"))
    /\ UNCHANGED <<disk, outbound>>

\* what the caller does with the OutboundMessage r that _process_message
\* returned: run() publishes it, process_direct hands its content back
Returned(t, r) ==
    IF t.origin = "loop" THEN Append(outbound, r) ELSE outbound

FinishFromHistory(old, t, cache, final) ==
    LET log == Persist(SubSeq(cache[t.key], 1, t.seen), t.msg, final)
    IN  /\ inflight' = inflight \ old
        /\ sessions' = [cache EXCEPT ![t.key] = log]
        /\ disk' = [k \in DOMAIN disk \cup {t.key} |->
                      IF k = t.key THEN log ELSE disk[k]]
        /\ outbound' = Returned(t, Reply(t.msg, final))
        /\ done' = done @@ (t.msg.id :> Ended(t, "replied", final))

\* the session is extended and saved, and the response is returned
Finish(old, t, cache, final) ==
    LET log == Persist(cache[t.key], t.msg, final)
    IN  /\ inflight' = inflight \ old
        /\ sessions' = [cache EXCEPT ![t.key] = log]
        /\ disk' = [k \in DOMAIN disk \cup {t.key} |->
                      IF k = t.key THEN log ELSE disk[k]]
        /\ outbound' = Returned(t, Reply(t.msg, final))
        /\ done' = done @@ (t.msg.id :> Ended(t, "replied", final))

FailSilent(old, t) ==
    /\ inflight' = inflight \ old
    /\ done' = done @@ (t.msg.id :> Ended(t, "raised", "none"))
    /\ UNCHANGED <<sessions, disk, outbound>>

FailRecorded(old, t) ==
    /\ inflight' = inflight \ old
    /\ sessions' = [sessions EXCEPT ![t.key] =
                        add_message(@, "user", t.msg.content, "human", "none", t.msg.id)]
    /\ outbound' = Returned(t, Apology(t.msg))
    /\ done' = done @@ (t.msg.id :> Ended(t, "raised", "none"))
    /\ UNCHANGED disk

\* an exception leaves _process_message: run() publishes the apology,
\* process_direct lets the exception through to its caller
Fail(old, t) ==
    /\ inflight' = inflight \ old
    /\ outbound' = Returned(t, Apology(t.msg))
    /\ done' = done @@ (t.msg.id :> Ended(t, "raised", "none"))
    /\ UNCHANGED <<sessions, disk>>

MainLoopOneMore(old, t, cache) ==
    IF t.iteration <= config.max_iterations
    THEN Suspend(old, [t EXCEPT !.pc = "chat", !.iteration = @ + 1,
                                !.calls = @ + 1], cache)
    ELSE Finish(old, t, cache,
                IF IsSystem(t.msg) THEN BackgroundReply ELSE FallbackReply)

\* `while iteration < self.max_iterations`: the next provider call, or the
\* fallback content when the loop is exhausted
MainLoop(old, t, cache) ==
    IF t.iteration < config.max_iterations
    THEN Suspend(old, [t EXCEPT !.pc = "chat", !.iteration = @ + 1,
                                !.calls = @ + 1], cache)
    ELSE Finish(old, t, cache,
                IF IsSystem(t.msg) THEN BackgroundReply ELSE FallbackReply)

\* _process_message from its entry to its first await
Process(origin, msg) ==
    LET cache == get_or_create(sessions, disk, KeyOf(msg))
        pre == LoopPreGate(msg.metadata, cache[KeyOf(msg)], config)
        t == [NewCall(origin, msg) EXCEPT
                !.seen = Len(cache[KeyOf(msg)]),
                !.depth = IF /\ ~IsSystem(msg)
                             /\ Get(msg.metadata, "chat_type", "absent") = "group"
                             /\ Get(msg.metadata, "from_bot", FALSE)
                          THEN count_trailing_bots(cache[KeyOf(msg)]) + 1
                          ELSE 0]
    IN  IF IsSystem(msg) THEN MainLoop({}, t, cache)
        ELSE IF pre = "SKIP"
             THEN SkipMessage({}, [t EXCEPT !.decision = "SKIP"], cache)
        ELSE IF pre = "LLM"
             THEN Suspend({}, [t EXCEPT !.pc = "gate", !.gated = TRUE,
                                        !.gateCalls = @ + 1], cache)
        ELSE MainLoop({}, [t EXCEPT !.decision = "RESPOND"], cache)

\* a channel or the relay subscriber publishes on the inbound bus
PublishInbound ==
    /\ Len(enqueued) < MaxMsgs
    /\ Len(inbound) < QueueCap
    /\ \E in \in LoopInputs :
         LET msg == InboundMessage(MsgId(Len(enqueued) + 1), in)
         IN  /\ inbound' = Append(inbound, msg)
             /\ enqueued' = Append(enqueued, msg)
    /\ UNCHANGED <<gate, cnt, auxVars, relayVars, config, outbound, sessions, disk, inflight, done>>

\* run(): consume_inbound returns a message and _process_message starts
Consume ==
    /\ inbound # <<>>
    /\ ~LoopBusy(inflight)
    /\ inbound' = Tail(inbound)
    /\ Process("loop", Head(inbound))
    /\ UNCHANGED <<gate, cnt, auxVars, relayVars, config, enqueued>>

\* the LLM gate letting the provider's exception out of _process_message
GateReturnLetsRaise ==
    \E t \in inflight, resp \in LoopGateResponses :
        /\ t.pc = "gate"
        /\ LET verdict == Verdict(LlmVerdict(resp, Get(t.msg.metadata, "from_bot", FALSE)))
               u == [t EXCEPT !.decision = verdict, !.gateResp = resp]
           IN  IF resp.raises THEN Fail({t}, [u EXCEPT !.decision = "none"])
               ELSE IF verdict = "SKIP" THEN SkipMessage({t}, u, sessions)
               ELSE MainLoop({t}, u, sessions)
        /\ UNCHANGED <<gate, cnt, auxVars, relayVars, config, inbound, enqueued>>

\* the provider call of the LLM gate returns or raises
GateReturn ==
    \E t \in inflight, resp \in LoopGateResponses :
        /\ t.pc = "gate"
        /\ LET verdict == Verdict(LlmVerdict(resp, Get(t.msg.metadata, "from_bot", FALSE)))
               u == [t EXCEPT !.decision = verdict, !.gateResp = resp]
           IN  IF verdict = "SKIP" THEN SkipMessage({t}, u, sessions)
               ELSE MainLoop({t}, u, sessions)
        /\ UNCHANGED <<gate, cnt, auxVars, relayVars, config, inbound, enqueued>>

\* a main-turn provider call returns final content
ChatReturnsContent ==
    \E t \in inflight :
        /\ t.pc = "chat"
        /\ Finish({t}, [t EXCEPT !.allTools = FALSE], sessions, "text")
        /\ UNCHANGED <<gate, cnt, auxVars, relayVars, config, inbound, enqueued>>

\* a main-turn provider call returns tool calls
ChatReturnsToolCalls ==
    \E t \in inflight, n \in 1..MaxToolCalls :
        /\ t.pc = "chat"
        /\ Suspend({t}, [t EXCEPT !.pc = "tool", !.pending = n], sessions)
        /\ UNCHANGED <<gate, cnt, auxVars, relayVars, config, inbound, enqueued>>

\* a tool execution returns its result
ToolReturns ==
    \E t \in inflight :
        /\ t.pc = "tool"
        /\ IF t.pending > 1
           THEN Suspend({t}, [t EXCEPT !.pending = @ - 1], sessions)
           ELSE MainLoop({t}, [t EXCEPT !.pending = 0], sessions)
        /\ UNCHANGED <<gate, cnt, auxVars, relayVars, config, inbound, enqueued>>

\* a main-turn provider call or a tool execution raises
CallRaises ==
    \E t \in inflight :
        /\ t.pc \in {"chat", "tool"}
        /\ Fail({t}, [t EXCEPT !.allTools = FALSE])
        /\ UNCHANGED <<gate, cnt, auxVars, relayVars, config, inbound, enqueued>>

Init ==
    /\ gate = GateIdle
    /\ cnt = CntIdle
    /\ AuxIdle
    /\ config \in LoopCfgs
    /\ inbound = <<>>
    /\ outbound = <<>>
    /\ sessions = <<>>
    /\ disk = <<>>
    /\ inflight = {}
    /\ enqueued = <<>>
    /\ done = <<>>
    /\ RelayIdle

Next ==
    \/ PublishInbound
    \/ Consume
    \/ GateReturn
    \/ ChatReturnsContent
    \/ ChatReturnsToolCalls
    \/ ToolReturns
    \/ CallRaises

Spec == Init /\ [][Next]_vars

\* ------------------------------------------------------------------------
\* The agent loop fed with the messages of one group chat
\* ------------------------------------------------------------------------
MaxChain == 3           \* messages published to the group session in one run

GroupKey == <<"feishu", ":">> \o GroupChat

\* the inputs whose session is the group chat's, under the policy the relay
\* subscriber fills in
ChainInputs ==
    {in \in LoopInputs :
        /\ KeyOf(InboundMessage("m", in)) = GroupKey
        /\ Get(in.metadata, "group_policy", "auto") = "auto"}

\* a channel, the relay subscriber or a sub-agent publishes a message of
\* the group chat on the inbound bus
PublishToGroup ==
    /\ Len(enqueued) < MaxChain
    /\ Len(inbound) < QueueCap
    /\ \E in \in ChainInputs :
         LET msg == InboundMessage(MsgId(Len(enqueued) + 1), in)
         IN  /\ inbound' = Append(inbound, msg)
             /\ enqueued' = Append(enqueued, msg)
    /\ UNCHANGED <<gate, cnt, auxVars, relayVars, config, outbound, sessions, disk, inflight, done>>

NextChain ==
    \/ PublishToGroup
    \/ Consume
    \/ GateReturn
    \/ ChatReturnsContent
    \/ ChatReturnsToolCalls
    \/ ToolReturns
    \/ CallRaises

SpecChain == Init /\ [][NextChain]_vars

\* ------------------------------------------------------------------------
\* process_direct called while the agent loop runs
\* ------------------------------------------------------------------------
MaxDirect == 1          \* process_direct calls made in one run

DirectId(n) ==
    CASE n = 1 -> "d1" [] n = 2 -> "d2" [] n = 3 -> "d3" [] OTHER -> "d4"

\* the (channel, chat_id) process_direct is called with: its defaults, as
\* the CLI calls it, and a chat channel's, as a scheduled job calls it
DirectInputs ==
    {[channel |-> <<"cli">>, sender_id |-> "user", chat_id |-> <<"direct">>,
      metadata |-> <<>>],
     [channel |-> <<"feishu">>, sender_id |-> "user", chat_id |-> GroupChat,
      metadata |-> <<>>]}

\* the process_direct calls made so far: each is under way or has ended
DirectCalls ==
    {n \in 1..MaxDirect :
        \/ DirectId(n) \in DOMAIN done
        \/ \E t \in inflight : t.msg.id = DirectId(n)}

\* process_direct: the message is built and _process_message starts, on
\* the caller's task
ProcessDirect ==
    /\ Cardinality(DirectCalls) < MaxDirect
    /\ \E in \in DirectInputs :
         Process("direct", InboundMessage(DirectId(Cardinality(DirectCalls) + 1), in))
    /\ UNCHANGED <<gate, cnt, auxVars, relayVars, config, inbound, enqueued>>

NextDirect ==
    \/ PublishInbound
    \/ Consume
    \/ ProcessDirect
    \/ GateReturn
    \/ ChatReturnsContent
    \/ ChatReturnsToolCalls
    \/ ToolReturns
    \/ CallRaises

SpecDirect == Init /\ [][NextDirect]_vars

\* ------------------------------------------------------------------------
\* run() and stop() (agent/loop.py)
\* ------------------------------------------------------------------------
OutCap == 1             \* responses the outbound queue holds

\* run() is called: self._running = True
RunBegins ==
    /\ run.pc = "new"
    /\ run' = [run EXCEPT !.running = TRUE, !.pc = "check"]
    /\ UNCHANGED <<gate, cnt, tlog, router, feishu, rfile, agentVars, relayVars>>

\* `while self._running`
RunChecks ==
    /\ run.pc = "check"
    /\ run' = [run EXCEPT !.pc = IF run.running THEN "wait" ELSE "returned"]
    /\ UNCHANGED <<gate, cnt, tlog, router, feishu, rfile, agentVars, relayVars>>

\* consume_inbound returns within the second: _process_message starts
RunConsumes ==
    /\ run.pc = "wait"
    /\ inbound # <<>>
    /\ inbound' = Tail(inbound)
    /\ Process("loop", Head(inbound))
    /\ run' = [run EXCEPT !.pc = "busy",
                          !.afterStop = IF run.running THEN @ ELSE @ + 1]
    /\ UNCHANGED <<gate, cnt, tlog, router, feishu, rfile, relayVars, config, enqueued>>

\* a wait that goes round again without looking at the flag
RunTimesOutAndWaits ==
    /\ run.pc = "wait"
    /\ inbound = <<>>
    /\ UNCHANGED vars

\* asyncio.TimeoutError after one second without a message: continue
RunTimesOut ==
    /\ run.pc = "wait"
    /\ inbound = <<>>
    /\ run' = [run EXCEPT !.pc = "check"]
    /\ UNCHANGED <<gate, cnt, tlog, router, feishu, rfile, agentVars, relayVars>>

\* _process_message is over and what it returned, or the apology, has been
\* put on the outbound queue: back to the head of the loop
RunResumes ==
    /\ run.pc = "busy"
    /\ ~LoopBusy(inflight)
    /\ Len(outbound) <= OutCap
    /\ run' = [run EXCEPT !.pc = "check"]
    /\ UNCHANGED <<gate, cnt, tlog, router, feishu, rfile, agentVars, relayVars>>

\* stop(): self._running = False
Stop ==
    /\ run.running
    /\ run' = [run EXCEPT !.running = FALSE]
    /\ UNCHANGED <<gate, cnt, tlog, router, feishu, rfile, agentVars, relayVars>>

\* the channels' dispatcher takes a response off the outbound queue
DispatchOutbound ==
    /\ outbound # <<>>
    /\ outbound' = Tail(outbound)
    /\ UNCHANGED <<gate, cnt, auxVars, relayVars, config, inbound, sessions, disk, inflight, enqueued, done>>

\* the in-flight _process_message moves on
CallStep ==
    \/ GateReturn
    \/ ChatReturnsContent
    \/ ChatReturnsToolCalls
    \/ ToolReturns
    \/ CallRaises

NextStop ==
    \/ PublishInbound
    \/ RunBegins
    \/ RunChecks
    \/ RunConsumes
    \/ RunTimesOut
    \/ RunResumes
    \/ Stop
    \/ DispatchOutbound
    \/ GateReturn
    \/ ChatReturnsContent
    \/ ChatReturnsToolCalls
    \/ ToolReturns
    \/ CallRaises

\* run() is a task of the event loop and is resumed whenever it can go on;
\* the provider and the tools answer, so that a call comes to its end; the
\* dispatcher keeps taking from the outbound queue. Nothing obliges anyone
\* to publish inbound or to call stop().
SpecStop ==
    /\ Init /\ [][NextStop]_vars
    /\ WF_vars(RunChecks)
    /\ WF_vars(RunConsumes \/ RunTimesOut)
    /\ WF_vars(RunResumes)
    /\ WF_vars(DispatchOutbound)
    /\ WF_vars(CallStep)

\* ------------------------------------------------------------------------
\* Properties of the agent loop (Spec)
\* ------------------------------------------------------------------------
FromBot(msg) == Get(msg.metadata, "from_bot", FALSE)
IsGroup(msg) == Get(msg.metadata, "chat_type", "absent") = "group"

CapHolds ==
    \A k \in DOMAIN sessions :
        count_trailing_bots(sessions[k]) <= config.max_bot_reply_depth

\* C2 as stated: whatever messages are processed, no session's trailing-bot
\* count exceeds max_bot_reply_depth.
C2_CapOnEverySession ==
    CapHolds

\* C2 amended: as long as every bot-origin message published inbound is a
\* group message, no session's trailing-bot count exceeds max_bot_reply_depth.
C2_CapOnGroupChains ==
    (\A i \in 1..Len(enqueued) : FromBot(enqueued[i]) => IsGroup(enqueued[i]))
        => CapHolds

\* a group session stands at the cap and a further mentioned bot message to
\* it has been skipped
C2_Witness ==
    \E i \in 1..Len(enqueued) :
        LET m == enqueued[i]
        IN  /\ FromBot(m) /\ IsGroup(m) /\ Get(m.metadata, "is_mentioned", FALSE)
            /\ m.id \in DOMAIN done /\ done[m.id].result = "skipped"
            /\ count_trailing_bots(sessions[KeyOf(m)]) = config.max_bot_reply_depth
            /\ config.max_bot_reply_depth = 2

\* One message processed on its own, from entry to return, with the
\* provider answers d that its processing received.
Sequential(cache, msg, d) ==
    LET key == KeyOf(msg)
        c1 == get_or_create(cache, cache, key)
        pre == LoopPreGate(msg.metadata, c1[key], config)
        decision ==
            IF IsSystem(msg) THEN "RESPOND"
            ELSE IF pre # "LLM" THEN pre
            ELSE IF d.gated THEN Verdict(LlmVerdict(d.gateResp, FromBot(msg)))
            ELSE "UNANSWERED"
    IN  IF decision = "SKIP" \/ (decision = "RESPOND" /\ d.result = "raised")
        THEN c1
        ELSE [c1 EXCEPT ![key] = Persist(@, msg, d.reply)]

RECURSIVE InOrder(_, _)
\* the first n published messages processed one at a time in enqueue order
InOrder(msgs, n) ==
    IF n = 0 THEN <<>>
    ELSE Sequential(InOrder(msgs, n - 1), msgs[n], done[msgs[n].id])

Consumed == Len(enqueued) - Len(inbound)

\* C3: whenever the loop has nothing in flight, the session logs are those
\* of processing the consumed deliveries one at a time in enqueue order;
\* with the queue drained these are the final logs.
C3_LogsAreSequential ==
    inflight = {} => sessions = InOrder(enqueued, Consumed)

\* two deliveries to the same session were both processed and answered, the
\* first after at least one provider call, and the queue is drained
C3_Witness ==
    /\ inflight = {} /\ inbound = <<>> /\ Len(enqueued) = 2
    /\ KeyOf(enqueued[1]) = KeyOf(enqueued[2])
    /\ done["m1"].calls > 0 /\ done["m1"].result = "replied"
    /\ done["m2"].result = "replied"
    /\ Len(sessions[KeyOf(enqueued[1])]) = 4

LoopExhausted(d) ==
    d.result = "replied" /\ d.allTools

OutboundFor(id) ==
    {i \in 1..Len(outbound) : outbound[i].re = id}

\* C14: when _process_message raised for a message, exactly one outbound
\* message was published for it, the apology addressed to the message's
\* channel and chat_id; the call is over, and the loop takes the next
\* message off the queue when there is one.
C14_RaiseGivesOneApologyAndLoopGoesOn ==
    \A n \in 1..Len(enqueued) :
        LET msg == enqueued[n]
        IN  (msg.id \in DOMAIN done /\ done[msg.id].result = "raised") =>
              /\ Cardinality(OutboundFor(msg.id)) = 1
              /\ \A i \in OutboundFor(msg.id) :
                    /\ outbound[i].content = ApologyReply
                    /\ outbound[i].channel = msg.channel
                    /\ outbound[i].chat_id = msg.chat_id
              /\ \A t \in inflight : t.msg.id # msg.id
              /\ (inflight = {} /\ inbound # <<>>) => ENABLED Consume

\* processing of the first message raised, and the second message was
\* consumed and answered after it
C14_Witness ==
    /\ Len(enqueued) = 2 /\ DOMAIN done = {"m1", "m2"}
    /\ done["m1"].result = "raised" /\ done["m2"].result = "replied"
    /\ Len(outbound) = 2
    /\ outbound[1].re = "m1" /\ outbound[1].content = ApologyReply
    /\ outbound[2].re = "m2"

\* the step in which the processing of msg ends with a reply
RepliesNow(msg) ==
    /\ msg.id \notin DOMAIN done /\ msg.id \in DOMAIN done'
    /\ done'[msg.id].result = "replied"

\* the step in which the processing of msg ends with None returned
SkipsNow(msg) ==
    /\ msg.id \notin DOMAIN done /\ msg.id \in DOMAIN done'
    /\ done'[msg.id].result = "skipped"

\* the user turn the session is to gain for a message that is not a system
\* message
UserTurnFor(msg) ==
    IF FromBot(msg)
    THEN Entry("user", msg.content, "bot",
               IF "sender_agent_name" \in DOMAIN msg.metadata
                  /\ msg.metadata["sender_agent_name"] # ""
               THEN msg.metadata["sender_agent_name"] ELSE msg.sender_id,
               msg.id)
    ELSE Entry("user", msg.content, "human", "none", msg.id)

\* C23: the step that ends the processing of a non-system message with a
\* reply appends exactly two entries to the message's session, the user turn
\* (sender_type "bot" and sender = sender_agent_name or sender_id when
\* from_bot, else sender_type "human") and then an assistant turn with no
\* sender_type and no sender, and publishes one OutboundMessage to the
\* message's (channel, chat_id) carrying the inbound metadata.
C23_ReplyAppendsUserThenAssistant ==
    [][\A n \in 1..Len(enqueued) :
          LET msg == enqueued[n]
              final == done'[msg.id].reply
          IN  (RepliesNow(msg) /\ ~IsSystem(msg)) =>
                  /\ sessions'[session_key(msg)] =
                        sessions[session_key(msg)]
                          \o <<UserTurnFor(msg),
                               Entry("assistant", <<final>>, "none", "none", msg.id)>>
                  /\ outbound' =
                        Append(outbound,
                               [channel |-> msg.channel, chat_id |-> msg.chat_id,
                                content |-> final, metadata |-> msg.metadata,
                                re |-> msg.id])]_vars

\* a mentioned bot message that names no sender_agent_name was answered: the
\* session holds its user turn, sent by the sender_id, and the assistant
\* turn, and the reply went out with the message's metadata
C23_Witness ==
    /\ Len(enqueued) >= 1 /\ "m1" \in DOMAIN done
    /\ done["m1"].result = "replied"
    /\ FromBot(enqueued[1])
    /\ "sender_agent_name" \notin DOMAIN enqueued[1].metadata
    /\ sessions[session_key(enqueued[1])] =
          <<Entry("user", <<"m1">>, "bot", "botX", "m1"),
            Entry("assistant", <<"text">>, "none", "none", "m1")>>
    /\ Len(outbound) = 1 /\ outbound[1].chat_id = GroupChat
    /\ outbound[1].metadata = enqueued[1].metadata

\* the sessions and session files that hold an entry written for message
\* id, and the outbound messages published for it
Traces(id) ==
    [cached |-> {k \in DOMAIN sessions :
                    \E i \in 1..Len(sessions[k]) : sessions[k][i].re = id},
     saved |-> {k \in DOMAIN disk :
                    \E i \in 1..Len(disk[k]) : disk[k][i].re = id},
     sent |-> OutboundFor(id)]

\* C24: a message that routing decided to SKIP has run no main-turn
\* provider call or tool execution, and no session entry, saved entry or
\* OutboundMessage exists for it; the step that ends its processing changes
\* no session log, no session file and not the outbound queue (the session
\* itself was created when processing began).
C24_SkipLeavesNoTrace ==
    /\ [](\A id \in DOMAIN done :
            done[id].result = "skipped" =>
                /\ done[id].calls = 0
                /\ Traces(id) = [cached |-> {}, saved |-> {}, sent |-> {}])
    /\ [][\A n \in 1..Len(enqueued) :
            SkipsNow(enqueued[n]) =>
                /\ sessions' = get_or_create(sessions, disk, KeyOf(enqueued[n]))
                /\ disk' = disk
                /\ outbound' = outbound]_vars

\* a bot message was skipped by the LLM gate after an earlier message to the
\* same session was answered: the session still holds that one pair only
C24_Witness ==
    /\ DOMAIN done = {"m1", "m2"}
    /\ done["m1"].result = "replied"
    /\ done["m2"].result = "skipped" /\ done["m2"].gated
    /\ KeyOf(enqueued[1]) = KeyOf(enqueued[2])
    /\ Len(sessions[KeyOf(enqueued[2])]) = 2
    /\ disk = sessions
    /\ Len(outbound) = 1

\* a bot-origin group message that was skipped at a depth at or over the cap
SkippedAtCap(msg) ==
    /\ FromBot(msg) /\ IsGroup(msg)
    /\ msg.id \in DOMAIN done
    /\ done[msg.id].result = "skipped"
    /\ done[msg.id].depth >= config.max_bot_reply_depth

\* a human or system message to session key was processed and persisted
PersistedNonBot(msg, key) ==
    /\ ~FromBot(msg) /\ KeyOf(msg) = key
    /\ msg.id \in DOMAIN done
    /\ done[msg.id].result = "replied"

\* C25: after a bot-origin group message was skipped at the depth cap, every
\* later bot-origin message to the same session that has been processed,
\* with no human or system message to that session processed and persisted
\* in between, was skipped too, without a gate call, and at the same depth:
\* the skipped messages left the trailing-bot count as it was.
C25_CappedSessionStaysCapped ==
    \A i, j \in 1..Len(enqueued) :
        LET a == enqueued[i]
            b == enqueued[j]
        IN  (/\ i < j /\ SkippedAtCap(a)
             /\ FromBot(b) /\ KeyOf(b) = KeyOf(a) /\ b.id \in DOMAIN done
             /\ \A n \in (i + 1)..(j - 1) : ~PersistedNonBot(enqueued[n], KeyOf(a)))
                => /\ done[b.id].result = "skipped"
                   /\ ~done[b.id].gated /\ done[b.id].calls = 0
                   /\ done[b.id].depth = done[a.id].depth

\* with a cap of 2, a first bot message was answered, and the two mentioned
\* bot messages that followed it were both skipped at depth 3
C25_Witness ==
    /\ config.max_bot_reply_depth = 2
    /\ DOMAIN done = {"m1", "m2", "m3"}
    /\ done["m1"].result = "replied" /\ done["m1"].depth = 1
    /\ SkippedAtCap(enqueued[2]) /\ SkippedAtCap(enqueued[3])
    /\ Get(enqueued[2].metadata, "is_mentioned", FALSE)
    /\ Get(enqueued[3].metadata, "is_mentioned", FALSE)
    /\ done["m3"].depth = 3
    /\ count_trailing_bots(sessions[GroupKey]) = 2

\* the log is a sequence of pairs: a user turn, then the assistant turn
\* written for the same message, carrying the reply produced for it
Paired(log) ==
    /\ Len(log) % 2 = 0
    /\ \A i \in 1..Len(log) :
          i % 2 = 1 =>
              /\ log[i].role = "user" /\ log[i + 1].role = "assistant"
              /\ log[i + 1].re = log[i].re
              /\ log[i].re \in DOMAIN done
              /\ done[log[i].re].result = "replied"
              /\ log[i + 1].content = <<done[log[i].re].reply>>
              /\ \A j \in 1..Len(log) : log[j].re = log[i].re => j \in {i, i + 1}

\* C26: in every reachable state, process_direct calls running next to the
\* loop's _process_message included, every session is a sequence of adjacent
\* (user, assistant) pairs, each user entry directly followed by the reply
\* produced for that message; and every step only appends to a session, so
\* the pairs stand in the order in which processing ended.
C26_SessionsStayPaired ==
    /\ [](\A k \in DOMAIN sessions : Paired(sessions[k]))
    /\ [][\A k \in DOMAIN sessions :
            /\ k \in DOMAIN sessions'
            /\ Len(sessions'[k]) >= Len(sessions[k])
            /\ SubSeq(sessions'[k], 1, Len(sessions[k])) = sessions[k]]_vars

\* a process_direct call and the loop worked on the same session at the
\* same time: the loop's message began first and ended last, and the
\* session holds the direct call's pair before the loop's
C26_Witness ==
    /\ "m1" \in DOMAIN done /\ "d1" \in DOMAIN done
    /\ done["m1"].result = "replied" /\ done["d1"].result = "replied"
    /\ done["m1"].seen = 0 /\ done["d1"].seen = 0
    /\ KeyOf(enqueued[1]) = GroupKey
    /\ Len(sessions[GroupKey]) = 4
    /\ sessions[GroupKey][1].re = "d1" /\ sessions[GroupKey][3].re = "m1"

\* the step in which the processing of msg ends with an exception
RaisesNow(msg) ==
    /\ msg.id \notin DOMAIN done /\ msg.id \in DOMAIN done'
    /\ done'[msg.id].result = "raised"

SplitAtFirstColon(chat_id) ==
    LET colons == {i \in 1..Len(chat_id) : chat_id[i] = ":"}
        first == CHOOSE i \in colons : \A j \in colons : i <= j
    IN  IF colons = {} THEN <<<<"cli">>, chat_id>>
        ELSE <<SubSeq(chat_id, 1, first - 1), SubSeq(chat_id, first + 1, Len(chat_id))>>

\* C28: a message of channel "system" is never gated and never skipped; the
\* step that ends its processing with a reply publishes the reply to
\* (origin_channel, origin_chat_id), chat_id split at its first ":" (channel
\* "cli" without one), and appends to the session origin_channel:
\* origin_chat_id a user entry with sender_type "system" and content
\* "[System: <sender_id>] <content>", then the assistant entry.
C28_SystemMessageGoesToOrigin ==
    /\ [](\A n \in 1..Len(enqueued) :
            LET id == enqueued[n].id
            IN  (enqueued[n].channel = <<"system">> /\ id \in DOMAIN done) =>
                    /\ ~done[id].gated /\ done[id].decision = "none"
                    /\ done[id].result # "skipped" /\ done[id].calls >= 1)
    /\ [][\A n \in 1..Len(enqueued) :
            LET msg == enqueued[n]
                origin == SplitAtFirstColon(msg.chat_id)
                key == origin[1] \o <<":">> \o origin[2]
                final == done'[msg.id].reply
            IN  (msg.channel = <<"system">> /\ RepliesNow(msg)) =>
                    /\ sessions'[key] =
                          sessions[key]
                            \o <<Entry("user",
                                       <<"[System: ", msg.sender_id, "] ">> \o msg.content,
                                       "system", "none", msg.id),
                                 Entry("assistant", <<final>>, "none", "none", msg.id)>>
                    /\ outbound' =
                          Append(outbound,
                                 [channel |-> origin[1], chat_id |-> origin[2],
                                  content |-> final, metadata |-> <<>>,
                                  re |-> msg.id])]_vars

\* a system message whose chat_id holds two colons was answered: the reply
\* went to ("slack", "c1:t1") and the session slack:c1:t1 holds the tagged
\* user turn
C28_Witness ==
    /\ Len(enqueued) >= 1 /\ "m1" \in DOMAIN done
    /\ enqueued[1].channel = <<"system">>
    /\ enqueued[1].chat_id = <<"slack", ":", "c1", ":", "t1">>
    /\ done["m1"].result = "replied"
    /\ outbound[1].channel = <<"slack">>
    /\ outbound[1].chat_id = <<"c1", ":", "t1">>
    /\ Len(sessions[<<"slack", ":", "c1", ":", "t1">>]) = 2
    /\ sessions[<<"slack", ":", "c1", ":", "t1">>][1].sender_type = "system"
    /\ sessions[<<"slack", ":", "c1", ":", "t1">>][1].content
          = <<"[System: ", "cron", "] ", "m1">>

\* this step ends the LLM gate's provider call for msg, and the call raised
GateRaisesNow(msg) ==
    /\ \E t \in inflight : t.msg = msg /\ t.pc = "gate"
    /\ \/ \E u \in inflight' : u.msg = msg /\ u.pc # "gate" /\ u.gateResp.raises
       \/ /\ msg.id \in DOMAIN done'
          /\ done'[msg.id].gateResp.raises

GateCallsAtMostOne ==
    /\ \A t \in inflight : t.gateCalls <= 1
    /\ \A id \in DOMAIN done : done[id].gateCalls <= 1

\* C35: gating makes at most one provider call per inbound message, and a
\* provider failure inside the LLM gate does not abort the processing: when
\* the gate's call raises for a human group message, the message goes on
\* to the main turn, whose provider call is another one, and no apology is
\* sent on account of the gate.
C35_GateFailureDoesNotAbort ==
    /\ []GateCallsAtMostOne
    /\ [][\A n \in 1..Len(enqueued) :
             LET msg == enqueued[n]
             IN  (GateRaisesNow(msg) /\ ~FromBot(msg)) =>
                     /\ outbound' = outbound
                     /\ sessions' = sessions
                     /\ msg.id \notin DOMAIN done'
                     /\ \E u \in inflight' :
                           /\ u.msg = msg
                           /\ u.pc = "chat"
                           /\ u.decision = "RESPOND"
                           /\ u.gateCalls = 1
                           /\ u.calls = 1]_vars

\* a human group message whose gate call raised has been answered
C35_Witness ==
    \E n \in 1..Len(enqueued) :
        /\ IsGroup(enqueued[n]) /\ ~FromBot(enqueued[n])
        /\ enqueued[n].id \in DOMAIN done
        /\ done[enqueued[n].id].gateResp.raises
        /\ done[enqueued[n].id].gateCalls = 1
        /\ done[enqueued[n].id].calls >= 1
        /\ done[enqueued[n].id].result = "replied"
        /\ \A k \in 1..Len(outbound) : outbound[k].content # ApologyReply

\* ------------------------------------------------------------------------
\* Properties of run() and stop() (SpecStop)
\* ------------------------------------------------------------------------
\* stop() has been called while run() was executing
Stopping ==
    run.pc \notin {"new", "returned"} /\ ~run.running

MaxTailK == 32          \* trailing runs of 0..MaxTailK bot turns

BotUser == Entry("user", <<"m">>, "bot", "peer", "m")
Assistant == Entry("assistant", <<"r">>, "none", "none", "m")

\* a run of k turns that each count as a bot turn
BotRun(pattern, k) ==
    [i \in 1..k |->
        CASE pattern = "assistants" -> Assistant
          [] pattern = "bots" -> BotUser
          [] pattern = "bot-first" -> IF i % 2 = 1 THEN BotUser ELSE Assistant
          [] pattern = "assistant-first" -> IF i % 2 = 1 THEN Assistant ELSE BotUser]

\* a user turn that is not a bot's: tagged human or system, or untagged
StopTurn(sender_type) ==
    Entry("user", <<"m">>, sender_type, "none", "m")

CountInputs ==
    {[pc |-> "input", k |-> k, result |-> -1,
      messages |-> prefix \o <<StopTurn(st)>> \o BotRun(pattern, k)] :
        prefix \in {<<>>, <<Assistant>>, <<BotUser, Assistant>>},
        st \in {"human", "system", "none"},
        pattern \in {"assistants", "bots", "bot-first", "assistant-first"},
        k \in 0..MaxTailK}

InitCount ==
    /\ cnt \in CountInputs
    /\ AuxIdle
    /\ gate = GateIdle
    /\ AgentIdle
    /\ RelayIdle

CountCall ==
    /\ cnt.pc = "input"
    /\ cnt' = [cnt EXCEPT !.pc = "counted",
                          !.result = count_trailing_bots(cnt.messages)]
    /\ UNCHANGED <<gate, auxVars, agentVars, relayVars>>

\* a human or system turn is appended and the count is taken again
InsertTurn ==
    /\ cnt.pc = "counted"
    /\ \E st \in {"human", "system"} :
         LET after == add_message(cnt.messages, "user", <<"m">>, st, "none", "m")
         IN  cnt' = [cnt EXCEPT !.pc = "reset", !.messages = after,
                                !.result = count_trailing_bots(after)]
    /\ UNCHANGED <<gate, auxVars, agentVars, relayVars>>

NextCount ==
    \/ CountCall
    \/ InsertTurn

SpecCount == InitCount /\ [][NextCount]_vars

Min(a, b) ==
    IF a <= b THEN a ELSE b

\* C9 as stated: after a human or system turn followed by k bot turns the
\* count is k, for every k.
C9_CountIsRunLength ==
    cnt.pc = "counted" => cnt.result = cnt.k

\* C9 amended: the count is k up to the scan window, min(k, 30), and it is 0
\* once a human or system turn has been appended.
C9_CountIsRunLengthInWindow ==
    /\ cnt.pc = "counted" => cnt.result = Min(cnt.k, max_scan)
    /\ cnt.pc = "reset" => cnt.result = 0

\* a run of mixed bot and assistant turns as long as the window was counted
C9_Witness ==
    /\ cnt.pc = "counted" /\ cnt.k = max_scan /\ cnt.result = max_scan
    /\ \E i \in 1..Len(cnt.messages) : cnt.messages[i] = BotUser

\* ------------------------------------------------------------------------
\* Properties of one gating call (SpecGate)
\* ------------------------------------------------------------------------
GateFromBot == Get(gate.meta, "from_bot", FALSE)
GateIsGroup == Get(gate.meta, "chat_type", "absent") = "group"
GateAtCap == count_trailing_bots(gate.messages) >= gate.cfg.max_bot_reply_depth - 1

\* C1 as stated: every bot-origin message whose session has a trailing-bot
\* count >= max_bot_reply_depth - 1 is decided SKIP.
C1_AnyBotAtCapSkipped ==
    (gate.pc = "returned" /\ GateFromBot /\ GateAtCap) => gate.decision = "SKIP"

\* C1 amended: a bot-origin message with chat_type "group" whose session has
\* a trailing-bot count >= max_bot_reply_depth - 1 is decided SKIP, for any
\* is_mentioned and group_policy, and the LLM gate is never asked.
C1_GroupBotAtCapSkipped ==
    (gate.pc # "called" /\ GateFromBot /\ GateIsGroup /\ GateAtCap)
        => gate.pc = "returned" /\ gate.decision = "SKIP" /\ gate.calls = 0

\* a mentioned bot message at the cap has been skipped by the agent loop
C1_Witness ==
    /\ gate.pc = "returned" /\ gate.impl = "loop"
    /\ GateFromBot /\ GateIsGroup /\ Get(gate.meta, "is_mentioned", FALSE)
    /\ count_trailing_bots(gate.messages) = 2 /\ gate.cfg.max_bot_reply_depth = 3
    /\ gate.decision = "SKIP"

\* C10: a human group message that is mentioned, or whose group_policy is
\* "open", is decided RESPOND with no provider call made for gating.
C10_MentionedHumanResponds ==
    (/\ gate.pc # "called" /\ GateIsGroup /\ ~GateFromBot
     /\ \/ Get(gate.meta, "is_mentioned", FALSE)
        \/ Get(gate.meta, "group_policy", "absent") = "open")
        => gate.pc = "returned" /\ gate.decision = "RESPOND" /\ gate.calls = 0

\* a mentioned human message under policy "mention" has been answered
C10_Witness ==
    /\ gate.pc = "returned" /\ gate.impl = "loop"
    /\ GateIsGroup /\ ~GateFromBot
    /\ Get(gate.meta, "is_mentioned", FALSE)
    /\ Get(gate.meta, "group_policy", "absent") = "mention"
    /\ count_trailing_bots(gate.messages) = 3
    /\ gate.decision = "RESPOND" /\ gate.calls = 0

\* the provider call of the LLM gate raised, or returned nothing at all
GateGotNothing ==
    /\ gate.pc = "returned" /\ gate.calls = 1
    /\ \/ gate.resp.raises
       \/ gate.resp.content = <<>> /\ gate.resp.reasoning = <<>>

\* C11: when the LLM gate is reached and the provider call raises or returns
\* empty content and empty reasoning, the call still returns a decision, and
\* it is SKIP for a bot-origin message and RESPOND for a human one.
C11_GateDefaultsToNotFromBot ==
    GateGotNothing => gate.decision = (IF GateFromBot THEN "SKIP" ELSE "RESPOND")

\* the provider raised on the gate call the routing filter made for a
\* mentioned bot message, and the message was skipped
C11_Witness ==
    /\ GateGotNothing /\ gate.resp.raises
    /\ GateFromBot /\ Get(gate.meta, "is_mentioned", FALSE)
    /\ gate.impl = "router"
    /\ gate.decision = "SKIP"

GateDepth == count_trailing_bots(gate.messages) + 1

\* C12: a mentioned bot-origin group message below the depth cap, with depth
\* within bot_reply_llm_threshold or with bot_reply_llm_check switched off,
\* is decided RESPOND and the LLM gate is not called.
C12_MentionedBotBelowCapResponds ==
    (/\ gate.pc # "called" /\ GateIsGroup /\ GateFromBot
     /\ Get(gate.meta, "is_mentioned", FALSE)
     /\ GateDepth < gate.cfg.max_bot_reply_depth
     /\ \/ GateDepth <= gate.cfg.bot_reply_llm_threshold
        \/ ~gate.cfg.bot_reply_llm_check)
        => gate.pc = "returned" /\ gate.decision = "RESPOND" /\ gate.calls = 0

\* C15: a human group message under group_policy "mention" whose metadata
\* does not carry is_mentioned = true (the key false or absent) is never
\* decided RESPOND.
C15_MentionPolicyNeedsExplicitMention ==
    (/\ GateIsGroup /\ ~GateFromBot
     /\ Get(gate.meta, "group_policy", "absent") = "mention"
     /\ ~Get(gate.meta, "is_mentioned", FALSE))
        => ~(gate.pc = "returned" /\ gate.decision = "RESPOND")

\* what a gating implementation returns for an input, and the provider calls
\* it makes, when the provider answers a gate call with resp
GateOutcome(impl, meta, messages, cfg, resp) ==
    LET pre == PreGate(impl, meta, messages, cfg)
    IN  IF pre = "LLM"
        THEN [decision |-> Verdict(LlmVerdict(resp, Get(meta, "from_bot", FALSE))),
              calls |-> 1]
        ELSE [decision |-> RouterDecision(pre), calls |-> 0]

OtherImpl(impl) ==
    IF impl = "loop" THEN "router" ELSE "loop"

\* C20: for every message, session and configuration, the agent loop's gate
\* and a router holding one GroupChatFilter with the same configuration
\* return the same decision after the same number of provider calls (the
\* provider giving both the same answer).
C20_LoopGateIsRouterDecision ==
    gate.pc = "returned" =>
        [decision |-> gate.decision, calls |-> gate.calls]
            = GateOutcome(OtherImpl(gate.impl), gate.meta, gate.messages,
                          gate.cfg, gate.resp)

\* C21: a bot-origin group message whose is_mentioned is false or absent,
\* at a depth below the cap, is decided SKIP with no provider call made,
\* under every group_policy and with bot_reply_llm_check on or off.
C21_UnmentionedBotBelowCapSkipped ==
    (/\ gate.pc # "called" /\ GateIsGroup /\ GateFromBot
     /\ ~Get(gate.meta, "is_mentioned", FALSE)
     /\ GateDepth < gate.cfg.max_bot_reply_depth)
        => gate.pc = "returned" /\ gate.decision = "SKIP" /\ gate.calls = 0

\* the agent loop, with the LLM check switched off, skipped a first bot
\* message that carries no is_mentioned key under policy "open"
C21_Witness ==
    /\ gate.pc = "returned" /\ gate.impl = "loop"
    /\ GateIsGroup /\ GateFromBot
    /\ "is_mentioned" \notin DOMAIN gate.meta
    /\ Get(gate.meta, "group_policy", "absent") = "open"
    /\ ~gate.cfg.bot_reply_llm_check
    /\ GateDepth = 1 /\ gate.cfg.max_bot_reply_depth = 3
    /\ gate.decision = "SKIP" /\ gate.calls = 0

\* C22: for a message whose chat_type is not "group" (absent, "p2p" or
\* another value) the GroupChatFilter abstains, and the gating call returns
\* RESPOND with no provider call made, whatever from_bot, is_mentioned,
\* group_policy and the session's trailing-bot count are.
C22_NonGroupAbstainsAndResponds ==
    (gate.pc # "called" /\ ~GateIsGroup) =>
        /\ FilterPreGate(gate.meta, gate.messages, gate.cfg) = "ABSTAIN"
        /\ gate.pc = "returned" /\ gate.decision = "RESPOND" /\ gate.calls = 0

\* the router answered RESPOND for an unmentioned bot message of chat_type
\* "p2p" under policy "mention", its session ending in four bot turns
C22_Witness ==
    /\ gate.pc = "returned" /\ gate.impl = "router"
    /\ Get(gate.meta, "chat_type", "absent") = "p2p"
    /\ GateFromBot /\ ~Get(gate.meta, "is_mentioned", TRUE)
    /\ Get(gate.meta, "group_policy", "absent") = "mention"
    /\ count_trailing_bots(gate.messages) = 4
    /\ gate.cfg.max_bot_reply_depth = 2
    /\ gate.decision = "RESPOND" /\ gate.calls = 0


\* the provider answered the gate's call with some text
GateGotText ==
    /\ gate.pc = "returned" /\ gate.calls = 1
    /\ ~gate.resp.raises
    /\ Strip(gate.resp.reasoning \o <<"\n">> \o gate.resp.content) # <<>>

\* reasoning_content, a line break, content: in upper case
GateText ==
    Upper(gate.resp.reasoning \o <<"\n">> \o gate.resp.content)

LastIndex(s, pat) ==
    IF Occurrences(s, pat) = {} THEN -1
    ELSE CHOOSE i \in Occurrences(s, pat) : \A j \in Occurrences(s, pat) : j <= i

MaxLog == 3             \* envelopes published in one run
MaxCrashes == 1         \* times the subscriber's process dies
MaxRereads == 1         \* times the offset file is lost
max_size == 2           \* ProcessedRelayStore capacity (5000), scaled down

SelfId == "botY"
PeerId == "botX"

RelayId(n) ==
    CASE n = 1 -> "r1" [] n = 2 -> "r2" [] n = 3 -> "r3" [] n = 4 -> "r4"
      [] OTHER -> "r5"

\* groups.json with and without an entry for this bot
GroupFiles ==
    {<<[name |-> <<"Y">>, feishu_open_id |-> SelfId, type |-> "bot"],
       [name |-> <<"X">>, feishu_open_id |-> PeerId, type |-> "bot"]>>,
     <<[name |-> <<"X">>, feishu_open_id |-> PeerId, type |-> "bot"]>>}

Plain == <<"h", "i">>
AtName == <<"@", "Y", " ", "h", "i">>
AtId == <<"<at id=", SelfId, ">", "h", "i">>

\* the arguments publish() is called with
EnvelopeInputs ==
    {[content |-> AtName, sender |-> PeerId, metadata |-> MkMeta("group", "absent", "false", "absent")],
     [content |-> AtName, sender |-> PeerId, metadata |-> MkMeta("group", "absent", "true", "mention")],
     [content |-> AtId, sender |-> PeerId, metadata |-> MkMeta("p2p", "absent", "absent", "absent")],
     [content |-> Plain, sender |-> SelfId, metadata |-> <<>>],
     [content |-> Plain, sender |-> "", metadata |-> <<>>]}

AgentNameOf(open_id) ==
    CASE open_id = SelfId -> "Y" [] open_id = PeerId -> "X" [] OTHER -> ""

\* GroupMessageRelay.publish: the payload of the appended line
Envelope(n, in) ==
    [relay_msg_id |-> RelayId(n), channel |-> <<"feishu">>, chat_id |-> GroupChat,
     content |-> in.content, sender_bot_open_id |-> in.sender,
     sender_agent_name |-> AgentNameOf(in.sender), metadata |-> in.metadata]

read_new_messages_from_start(log, offsets, agent_name) ==
    [result |-> log,
     offsets |-> [offsets EXCEPT ![agent_name] = Len(log)]]

\* read_new_messages keeping one offset for all the agents
read_new_messages_shared_offset(log, offsets, agent_name) ==
    [result |-> SubSeq(log, offsets[agent_name] + 1, Len(log)),
     offsets |-> [a \in DOMAIN offsets |-> Len(log)]]

\* GroupMessageRelay.read_new_messages: the lines after the saved offset,
\* and the offset it writes back
read_new_messages(log, offsets, agent_name) ==
    [result |-> SubSeq(log, offsets[agent_name] + 1, Len(log)),
     offsets |-> [offsets EXCEPT ![agent_name] = Len(log)]]

\* ProcessedRelayStore.contains
StoreContains(store, relay_msg_id) ==
    \E i \in 1..Len(store) : store[i] = relay_msg_id

RECURSIVE PopOldest(_)
\* while len(self._store) > self._max_size: popitem(last=False)
PopOldest(store) ==
    IF Len(store) > max_size THEN PopOldest(Tail(store)) ELSE store

StoreAddForgets(store, relay_msg_id) ==
    store

\* ProcessedRelayStore.add
StoreAdd(store, relay_msg_id) ==
    PopOldest(IF StoreContains(store, relay_msg_id) THEN store
              ELSE Append(store, relay_msg_id))

RECURSIVE FirstMember(_, _)
\* the first member of groups.json whose feishu_open_id is bot_id, if any
FirstMember(members, bot_id) ==
    IF members = <<>> THEN <<>>
    ELSE IF Head(members).feishu_open_id = bot_id THEN <<Head(members)>>
    ELSE FirstMember(Tail(members), bot_id)

\* _compute_is_mentioned looking for the marker whether or not groups.json
\* has an entry for this bot
compute_is_mentioned_any_marker(content, members, bot_id) ==
    LET found == FirstMember(members, bot_id)
    IN  \/ /\ found # <<>>
           /\ found[1].name # <<>>
           /\ Contains(content, <<"@">> \o found[1].name)
        \/ bot_id # "" /\ Contains(content, <<"<at id=", bot_id>>)

\* RelaySubscriber._compute_is_mentioned
compute_is_mentioned(content, members, bot_id) ==
    LET found == FirstMember(members, bot_id)
    IN  /\ found # <<>>
        /\ \/ found[1].name # <<>> /\ Contains(content, <<"@">> \o found[1].name)
           \/ bot_id # "" /\ Contains(content, <<"<at id=", bot_id>>)

\* the members listed for the injected message: everyone but this bot
GroupMembers(members, bot_id) ==
    SelectSeq(members, LAMBDA m : m.feishu_open_id # "" /\ m.feishu_open_id # bot_id)

\* payload.get("sender_agent_name") or "unknown"
SenderAgentName(payload) ==
    IF payload.sender_agent_name = "" THEN "unknown" ELSE payload.sender_agent_name

RelayMetadataTrusting(payload, members, bot_id) ==
    LET old == payload.metadata
        policy == IF "group_policy" \in DOMAIN old THEN <<>> ELSE ("group_policy" :> "auto")
    IN  ("from_bot" :> TRUE)
          @@ ("sender_agent_name" :> SenderAgentName(payload))
          @@ ("chat_type" :> Get(old, "chat_type", "group"))
          @@ ("is_mentioned" :> Get(old, "is_mentioned",
                                    compute_is_mentioned(payload.content, members, bot_id)))
          @@ ("group_members" :> GroupMembers(members, bot_id))
          @@ policy @@ old

\* _handle_message: the routing metadata of the injected message
RelayMetadata(payload, members, bot_id) ==
    LET old == payload.metadata
        policy == IF "group_policy" \in DOMAIN old THEN <<>> ELSE ("group_policy" :> "auto")
    IN  ("from_bot" :> TRUE)
          @@ ("sender_agent_name" :> SenderAgentName(payload))
          @@ ("chat_type" :> Get(old, "chat_type", "group"))
          @@ ("is_mentioned" :> compute_is_mentioned(payload.content, members, bot_id))
          @@ ("group_members" :> GroupMembers(members, bot_id))
          @@ policy @@ old

\* _handle_message: whether the payload is dropped before anything is done
Dropped(payload, store, bot_id) ==
    \/ payload.relay_msg_id = ""
    \/ StoreContains(store, payload.relay_msg_id)
    \/ payload.sender_bot_open_id # "" /\ payload.sender_bot_open_id = bot_id

\* _handle_message: the InboundMessage published on the local bus
Injection(payload, members, bot_id) ==
    LET metadata == RelayMetadata(payload, members, bot_id)
    IN  [channel |-> payload.channel,
         sender_id |-> payload.sender_bot_open_id,
         chat_id |-> IF metadata["chat_type"] = "group" THEN payload.chat_id
                     ELSE <<payload.sender_bot_open_id>>,
         content |-> payload.content,
         metadata |-> metadata]

\* a peer agent (or this one) publishes a reply to the relay
PublishEnvelope ==
    /\ Len(relayLog) < MaxLog
    /\ \E in \in EnvelopeInputs :
         relayLog' = Append(relayLog, Envelope(Len(relayLog) + 1, in))
    /\ UNCHANGED <<gate, cnt, auxVars, agentVars, offsetFile, subscriber, injected, transcript, groups>>

\* run(): read_new_messages returns the next batch
Poll ==
    /\ subscriber.up
    /\ subscriber.batch = <<>>
    /\ LET r == read_new_messages(relayLog, offsetFile, SubscriberName)
       IN  /\ r.result # <<>>
           /\ offsetFile' = r.offsets
           /\ subscriber' = [subscriber EXCEPT !.batch = r.result,
                                               !.recorded = r.offsets[SubscriberName]]
    /\ UNCHANGED <<gate, cnt, auxVars, agentVars, relayLog, injected, transcript, groups>>

\* run(): _handle_message on the next payload of the batch
HandleMessage ==
    /\ subscriber.up
    /\ subscriber.batch # <<>>
    /\ LET payload == Head(subscriber.batch)
           bot_id == subscriber.bot_open_id
       IN  IF Dropped(payload, subscriber.processed, bot_id)
           THEN /\ subscriber' = [subscriber EXCEPT !.batch = Tail(@)]
                /\ UNCHANGED <<injected, transcript>>
           ELSE /\ subscriber' = [subscriber EXCEPT
                                    !.batch = Tail(@),
                                    !.processed = StoreAdd(@, payload.relay_msg_id)]
                /\ transcript' = Append(transcript,
                                        [session_key |-> payload.channel \o <<":">> \o payload.chat_id,
                                         role |-> "assistant",
                                         content |-> payload.content,
                                         sender |-> SenderAgentName(payload),
                                         relay_msg_id |-> payload.relay_msg_id])
                /\ injected' = Append(injected,
                                      [msg |-> Injection(payload, groups, bot_id),
                                       payload |-> payload,
                                       instance |-> subscriber.instance,
                                       bot_open_id |-> bot_id,
                                       members |-> groups])
    /\ UNCHANGED <<gate, cnt, auxVars, agentVars, relayLog, offsetFile, groups>>

\* the channel learns the bot's open_id; get_bot_open_id returns it from now on
FetchBotOpenId ==
    /\ subscriber.up
    /\ subscriber.bot_open_id = ""
    /\ subscriber' = [subscriber EXCEPT !.bot_open_id = SelfId]
    /\ UNCHANGED <<gate, cnt, auxVars, agentVars, relayLog, offsetFile, injected, transcript, groups>>

\* the subscriber's process stops or dies; what it held in memory is gone
Crash ==
    /\ subscriber.up
    /\ subscriber.crashes < MaxCrashes
    /\ subscriber' = [subscriber EXCEPT !.up = FALSE, !.batch = <<>>,
                                        !.processed = <<>>, !.crashes = @ + 1]
    /\ UNCHANGED <<gate, cnt, auxVars, agentVars, relayLog, offsetFile, injected, transcript, groups>>

\* the process starts again with a fresh RelaySubscriber
Restart ==
    /\ ~subscriber.up
    /\ subscriber' = [NewSubscriber(subscriber.instance + 1) EXCEPT
                        !.crashes = subscriber.crashes,
                        !.rereads = subscriber.rereads,
                        !.recorded = subscriber.recorded]
    /\ UNCHANGED <<gate, cnt, auxVars, agentVars, relayLog, offsetFile, injected, transcript, groups>>

\* the offset file goes missing or unreadable: the next read starts at 0
\* (placed where the loss is next observed, before a read)
OffsetFileLost ==
    /\ subscriber.up
    /\ subscriber.batch = <<>>
    /\ subscriber.rereads < MaxRereads
    /\ offsetFile[SubscriberName] > 0
    /\ offsetFile' = [offsetFile EXCEPT ![SubscriberName] = 0]
    /\ subscriber' = [subscriber EXCEPT !.rereads = @ + 1]
    /\ UNCHANGED <<gate, cnt, auxVars, agentVars, relayLog, injected, transcript, groups>>

InitRelay ==
    /\ gate = GateIdle
    /\ cnt = CntIdle
    /\ AuxIdle
    /\ AgentIdle
    /\ relayLog = <<>>
    /\ offsetFile = (SubscriberName :> 0)
    /\ subscriber = NewSubscriber(1)
    /\ injected = <<>>
    /\ transcript = <<>>
    /\ groups \in GroupFiles

NextRelay ==
    \/ PublishEnvelope
    \/ Poll
    \/ HandleMessage
    \/ FetchBotOpenId
    \/ Crash
    \/ Restart
    \/ OffsetFileLost

SpecRelay == InitRelay /\ [][NextRelay]_vars


\* the subscriber and its loop run whenever they can; nothing obliges a
\* peer to publish, the process to die or the offset file to vanish
SpecRelayFair ==
    /\ SpecRelay
    /\ WF_vars(Poll)
    /\ WF_vars(HandleMessage)
    /\ WF_vars(FetchBotOpenId)
    /\ WF_vars(Restart)

\* ------------------------------------------------------------------------
\* Two subscribers reading the same relay log (relay/backend.py)
\* ------------------------------------------------------------------------
\* the agent names read_new_messages is called with
Readers == {"Y", "Z"}

\* offsets/<agent_name>.txt as read_new_messages reads it: 0 when the file
\* is missing or does not hold a number
SavedOffsets(offsets, agent_name, readable) ==
    IF readable THEN offsets ELSE [offsets EXCEPT ![agent_name] = 0]

\* one call of read_new_messages(agent_name), by any of the subscribers
ReadNewMessages ==
    /\ \E agent_name \in Readers, readable \in BOOLEAN :
         LET r == read_new_messages(relayLog,
                                    SavedOffsets(offsetFile, agent_name, readable),
                                    agent_name)
         IN  /\ offsetFile' = r.offsets
             /\ offsetFile' # offsetFile
    /\ UNCHANGED <<gate, cnt, auxVars, agentVars, relayLog, subscriber, injected, transcript, groups>>

InitReaders ==
    /\ gate = GateIdle
    /\ cnt = CntIdle
    /\ AuxIdle
    /\ AgentIdle
    /\ relayLog = <<>>
    /\ offsetFile = [a \in Readers |-> 0]
    /\ subscriber = NewSubscriber(1)
    /\ injected = <<>>
    /\ transcript = <<>>
    /\ groups = <<>>

NextReaders ==
    \/ PublishEnvelope
    \/ ReadNewMessages

SpecReaders == InitReaders /\ [][NextReaders]_vars

\* ------------------------------------------------------------------------
\* _handle_message statement by statement (relay/subscriber.py)
\* ------------------------------------------------------------------------
\* the line of the group transcript _handle_message writes;
\* relay_msg_id is a history field naming the envelope it was written for
TranscriptLine(payload) ==
    [session_key |-> payload.channel \o <<":">> \o payload.chat_id,
     role |-> "assistant",
     content |-> payload.content,
     sender |-> SenderAgentName(payload),
     relay_msg_id |-> payload.relay_msg_id]

\* lines 69-78: the payload is dropped, or its relay_msg_id is marked
HandleBegins ==
    /\ subscriber.batch # <<>>
    /\ subscriber.stage = "idle"
    /\ LET payload == Head(subscriber.batch)
       IN  IF Dropped(payload, subscriber.processed, subscriber.bot_open_id)
           THEN subscriber' = [subscriber EXCEPT !.batch = Tail(@)]
           ELSE subscriber' = [subscriber EXCEPT
                                 !.processed = StoreAdd(@, payload.relay_msg_id),
                                 !.stage = "marked"]
    /\ UNCHANGED <<gate, cnt, auxVars, agentVars, relayLog, offsetFile, injected, transcript, groups>>

\* a transcript append whose exception leaves _handle_message
AppendTranscriptRaises ==
    /\ subscriber.stage = "marked"
    /\ \/ /\ transcript' = Append(transcript, TranscriptLine(Head(subscriber.batch)))
          /\ subscriber' = [subscriber EXCEPT !.stage = "appended"]
       \/ /\ transcript' = transcript
          /\ subscriber' = [subscriber EXCEPT !.stage = "idle", !.batch = <<>>]
    /\ UNCHANGED <<gate, cnt, auxVars, agentVars, relayLog, offsetFile, injected, groups>>

\* lines 88-96: transcript_store.append returns, or raises and is caught
AppendTranscript ==
    /\ subscriber.stage = "marked"
    /\ \/ /\ transcript' = Append(transcript, TranscriptLine(Head(subscriber.batch)))
          /\ subscriber' = [subscriber EXCEPT !.stage = "appended"]
       \/ /\ transcript' = transcript
          /\ subscriber' = [subscriber EXCEPT !.stage = "append_failed"]
    /\ UNCHANGED <<gate, cnt, auxVars, agentVars, relayLog, offsetFile, injected, groups>>

\* lines 98-128: the metadata is filled in and the message published
PublishInjection ==
    /\ subscriber.stage \in {"appended", "append_failed"}
    /\ LET payload == Head(subscriber.batch)
           bot_id == subscriber.bot_open_id
       IN  injected' = Append(injected,
                              [msg |-> Injection(payload, groups, bot_id),
                               payload |-> payload,
                               instance |-> subscriber.instance,
                               bot_open_id |-> bot_id,
                               members |-> groups])
    /\ subscriber' = [subscriber EXCEPT !.stage = "idle", !.batch = Tail(@)]
    /\ UNCHANGED <<gate, cnt, auxVars, agentVars, relayLog, offsetFile, transcript, groups>>

\* groups.json is rewritten; load_groups reads it anew at every call
GroupsEdited ==
    /\ groups' \in GroupFiles \ {groups}
    /\ UNCHANGED <<gate, cnt, auxVars, agentVars, relayLog, offsetFile, subscriber, injected, transcript>>

NextInject ==
    \/ PublishEnvelope
    \/ GroupsEdited
    \/ Poll
    \/ FetchBotOpenId
    \/ HandleBegins
    \/ AppendTranscript
    \/ PublishInjection

SpecInject == InitRelay /\ [][NextInject]_vars

\* ------------------------------------------------------------------------
\* Properties of the relay subscriber (SpecRelay)
\* ------------------------------------------------------------------------
InjectedId(i) == injected[i].payload.relay_msg_id

WasInjected(n) ==
    \E i \in 1..Len(injected) : InjectedId(i) = RelayId(n)

\* C5: every envelope a peer bot has published is eventually injected by the
\* subscriber, also when its process dies after read_new_messages returned
\* and restarts.
C5_AtLeastOnce ==
    \A n \in 1..MaxLog :
        (Len(relayLog) >= n /\ relayLog[n].sender_bot_open_id = PeerId)
            ~> WasInjected(n)

\* C6: no injected message was sent by this bot: its sender is neither the
\* open_id the subscriber held when it handled the envelope (the empty id
\* included) nor the open_id the subscriber had yet to fetch.
C6_NoSelfEcho ==
    \A i \in 1..Len(injected) :
        /\ injected[i].msg.sender_id # injected[i].bot_open_id
        /\ injected[i].msg.sender_id # SelfId

\* C7: two injected messages with the same content, handled under the same
\* bot id (and the same groups.json), carry the same is_mentioned, whatever
\* is_mentioned their envelopes carried.
C7_MentionFromContentOnly ==
    \A i, j \in 1..Len(injected) :
        (/\ injected[i].msg.content = injected[j].msg.content
         /\ injected[i].bot_open_id = injected[j].bot_open_id)
            => injected[i].msg.metadata["is_mentioned"]
                 = injected[j].msg.metadata["is_mentioned"]

\* two envelopes differing only in metadata.is_mentioned (and group_policy)
\* were injected with is_mentioned true for both
C7_Witness ==
    \E i, j \in 1..Len(injected) :
        /\ injected[i].payload.content = AtName
        /\ injected[j].payload.content = AtName
        /\ injected[i].payload.metadata["is_mentioned"] = FALSE
        /\ injected[j].payload.metadata["is_mentioned"] = TRUE
        /\ injected[i].msg.metadata["is_mentioned"]
        /\ injected[j].msg.metadata["is_mentioned"]

\* C13: what a subscriber handled before its process restarted is not
\* handled again by the fresh subscriber when the log is replayed: no
\* relay_msg_id is injected, or appended to the transcript, by two
\* different subscriber instances (envelopes of a peer bot).
C13_ReplayAfterRestartAddsNothing ==
    \A i, j \in 1..Len(injected) :
        (i < j /\ injected[i].instance # injected[j].instance
               /\ injected[i].payload.sender_bot_open_id = PeerId)
            => /\ InjectedId(i) # InjectedId(j)
               /\ transcript[i].relay_msg_id # transcript[j].relay_msg_id

\* the position in `injected` of the first injection of the n-th envelope
FirstInjection(n) ==
    CHOOSE i \in 1..Len(injected) :
        /\ InjectedId(i) = RelayId(n)
        /\ \A j \in 1..(i - 1) : InjectedId(j) # RelayId(n)

\* C17: of two envelopes that the subscriber both injected, the one appended
\* to the relay log first was injected first.
C17_InjectedInAppendOrder ==
    \A n, m \in 1..Len(relayLog) :
        (n < m /\ WasInjected(n) /\ WasInjected(m))
            => FirstInjection(n) < FirstInjection(m)

ReadFrame(a) ==
    offsetFile'[a] # offsetFile[a] =>
        /\ relayLog' = relayLog
        /\ \A b \in Readers \ {a} : offsetFile'[b] = offsetFile[b]
        /\ offsetFile'[a] >= offsetFile[a]

\* a step that changes the log: one record added after the earlier ones,
\* which stay as they were, and no offset moves
PublishFrame ==
    relayLog' # relayLog =>
        /\ offsetFile' = offsetFile
        /\ Len(relayLog') = Len(relayLog) + 1
        /\ SubSeq(relayLog', 1, Len(relayLog)) = relayLog

\* C31: subscribers are isolated from each other and from writers: a read
\* by A changes A's offset only and leaves the log and every other offset
\* as they were; publish appends one record, alters no earlier record and
\* moves no offset; an offset never decreases and never exceeds the length
\* of the log.
C31_ReadersAndWritersAreIsolated ==
    /\ [](\A a \in Readers : offsetFile[a] <= Len(relayLog))
    /\ [][PublishFrame /\ \A a \in Readers : ReadFrame(a)]_vars

\* the two subscribers have read at different times, and a record was
\* published after the first of them read
C31_Witness ==
    /\ Len(relayLog) = MaxLog
    /\ offsetFile["Y"] = 1
    /\ offsetFile["Z"] = MaxLog

\* ------------------------------------------------------------------------
\* Properties of _handle_message (SpecInject)
\* ------------------------------------------------------------------------
HasLineFor(lines, relay_msg_id) ==
    \E i \in 1..Len(lines) : lines[i].relay_msg_id = relay_msg_id

WasInjectedAs(relay_msg_id) ==
    \E i \in 1..Len(injected) : injected[i].payload.relay_msg_id = relay_msg_id

\* the step that writes the transcript line of an envelope finds its id
\* marked and the envelope not yet injected, and writes it as the assistant
\* turn of the sending agent
AppendsAfterMark ==
    transcript' # transcript =>
        LET line == transcript'[Len(transcript')]
            payload == Head(subscriber.batch)
        IN  /\ transcript' = Append(transcript, line)
            /\ line.relay_msg_id = payload.relay_msg_id
            /\ StoreContains(subscriber.processed, line.relay_msg_id)
            /\ ~WasInjectedAs(line.relay_msg_id)
            /\ line.role = "assistant"
            /\ line.sender = SenderAgentName(payload)
            /\ line.sender = IF payload.sender_agent_name = "" THEN "unknown"
                             ELSE payload.sender_agent_name

\* the step that publishes the inbound message finds the id marked and the
\* transcript append over, with its line written unless the append failed;
\* the message is from a bot and has the envelope's group_policy, or
\* "auto" when the envelope has none
InjectsAfterAppend ==
    injected' # injected =>
        LET i == injected'[Len(injected')]
            old == i.payload.metadata
        IN  /\ injected' = Append(injected, i)
            /\ i.payload = Head(subscriber.batch)
            /\ StoreContains(subscriber.processed, i.payload.relay_msg_id)
            /\ \/ HasLineFor(transcript, i.payload.relay_msg_id)
               \/ subscriber.stage = "append_failed"
            /\ i.msg.metadata["from_bot"] = TRUE
            /\ i.msg.metadata["group_policy"] =
                   (IF "group_policy" \in DOMAIN old THEN old["group_policy"] ELSE "auto")

\* every id marked processed is injected once its handler is over
MarkedIsInjected ==
    \A k \in 1..Len(subscriber.processed) :
        \/ WasInjectedAs(subscriber.processed[k])
        \/ /\ subscriber.stage # "idle"
           /\ Head(subscriber.batch).relay_msg_id = subscriber.processed[k]

\* C32: for each envelope it injects, the subscriber marks the
\* relay_msg_id processed, then appends the content to the group
\* transcript (role "assistant", sender = sender_agent_name), then
\* publishes the inbound message; a failed transcript append does not
\* prevent the injection; the injected message has from_bot = true and
\* group_policy = the envelope's value, or "auto" when it has none.
C32_MarkThenAppendThenInject ==
    /\ []MarkedIsInjected
    /\ [][AppendsAfterMark /\ InjectsAfterAppend]_vars

\* one envelope injected with its transcript line written and one injected
\* although its transcript append failed, with and without a group_policy
C32_Witness ==
    \E a, b \in 1..Len(injected) :
        /\ HasLineFor(transcript, injected[a].payload.relay_msg_id)
        /\ ~HasLineFor(transcript, injected[b].payload.relay_msg_id)
        /\ "group_policy" \in DOMAIN injected[a].payload.metadata
        /\ "group_policy" \notin DOMAIN injected[b].payload.metadata
        /\ injected[b].msg.metadata["group_policy"] = "auto"

\* whether groups.json, as it stood when the envelope was handled, had an
\* entry for the open_id the subscriber then had
HadEntry(i) ==
    \E k \in 1..Len(i.members) : i.members[k].feishu_open_id = i.bot_open_id

\* the content holds "@" followed by the name of such an entry
NamesSelf(i) ==
    \E k \in 1..Len(i.members) :
        /\ i.members[k].feishu_open_id = i.bot_open_id
        /\ Contains(i.payload.content, <<"@">> \o i.members[k].name)

\* the content holds the marker "<at id=" followed by the subscriber's id
MarksSelf(i) ==
    Contains(i.payload.content, <<"<at id=", i.bot_open_id>>)

MaxFilters == 4         \* filters registered on one router

\* what a ResponseFilter.should_respond returns for the message: None, True
\* or False
FilterAnswers == {"ABSTAIN", "RESPOND", "SKIP"}

DefinitiveOnlyTrue(result) ==
    result = "RESPOND"

\* `if result is not None`
Definitive(result) ==
    result # "ABSTAIN"

\* add_filter: the filter goes to the end of the chain
AddFilter ==
    /\ router.pc = "idle"
    /\ Len(router.filters) < MaxFilters
    /\ \E a \in FilterAnswers :
         router' = [router EXCEPT !.filters = Append(@, a)]
    /\ UNCHANGED <<gate, cnt, tlog, feishu, rfile, run, agentVars, relayVars>>

\* should_respond is called for a message
RouterCall ==
    /\ router.pc = "idle"
    /\ router' = [router EXCEPT !.pc = "running"]
    /\ UNCHANGED <<gate, cnt, tlog, feishu, rfile, run, agentVars, relayVars>>

\* should_respond: the for loop awaits the next filter and returns its
\* answer if it is not None; past the last filter it returns True
RouterStep ==
    /\ router.pc = "running"
    /\ LET i == Len(router.evaluated) + 1
       IN  IF i > Len(router.filters)
           THEN router' = [router EXCEPT !.pc = "returned", !.decision = "RESPOND"]
           ELSE IF Definitive(router.filters[i])
                THEN router' = [router EXCEPT !.pc = "returned",
                                              !.evaluated = Append(@, i),
                                              !.decision = router.filters[i]]
                ELSE router' = [router EXCEPT !.evaluated = Append(@, i)]
    /\ UNCHANGED <<gate, cnt, tlog, feishu, rfile, run, agentVars, relayVars>>

InitRouter ==
    /\ router = RouterIdle
    /\ feishu = FeishuIdle
    /\ rfile = RelayFileIdle
    /\ run = RunIdle
    /\ tlog = StoreIdle
    /\ gate = GateIdle
    /\ cnt = CntIdle
    /\ AgentIdle
    /\ RelayIdle

NextRouter ==
    \/ AddFilter
    \/ RouterCall
    \/ RouterStep

SpecRouter == InitRouter /\ [][NextRouter]_vars

\* the filters of the chain that do not abstain, by position
Answering ==
    {i \in 1..Len(router.filters) : router.filters[i] # "ABSTAIN"}

FirstAnswering ==
    CHOOSE i \in Answering : \A j \in Answering : i <= j

\* C16: the router returns the answer of the first filter, in registration
\* order, that does not abstain, and has evaluated exactly the filters up to
\* that one, each once and in order; when every filter abstains, or none is
\* registered, it returns RESPOND after evaluating them all.
C16_FirstDefinitiveAnswerWins ==
    router.pc = "returned" =>
        IF Answering = {}
        THEN /\ router.decision = "RESPOND"
             /\ router.evaluated = [i \in 1..Len(router.filters) |-> i]
        ELSE /\ router.decision = router.filters[FirstAnswering]
             /\ router.evaluated = [i \in 1..FirstAnswering |-> i]

\* a chain abstain, skip, respond returned SKIP without evaluating the third
\* filter
C16_Witness ==
    /\ router.pc = "returned"
    /\ router.filters = <<"ABSTAIN", "SKIP", "RESPOND">>
    /\ router.decision = "SKIP"
    /\ router.evaluated = <<1, 2>>

\* ------------------------------------------------------------------------
\* Feishu channel ingress (channels/feishu.py)
\* ------------------------------------------------------------------------
MaxEvents == 3                  \* events the WebSocket thread hands over
max_processed_message_ids == 2  \* dedup cache capacity (1000), scaled down
keep_most_recent == 1           \* "keep most recent 500", scaled down alike

EventId(n) ==
    CASE n = 1 -> "e1" [] n = 2 -> "e2" [] n = 3 -> "e3" [] n = 4 -> "e4"
      [] OTHER -> "e5"

\* the events Feishu pushes: a direct text, a group text that mentions the
\* bot, one that does not, a text that is empty, the bot's own message
FeishuEvents ==
    {[chat_type |-> "p2p", mentioned |-> FALSE, text |-> <<"hi">>, from_self |-> FALSE],
     [chat_type |-> "group", mentioned |-> TRUE, text |-> <<"hi">>, from_self |-> FALSE],
     [chat_type |-> "group", mentioned |-> FALSE, text |-> <<"hi">>, from_self |-> FALSE],
     [chat_type |-> "p2p", mentioned |-> FALSE, text |-> <<>>, from_self |-> FALSE],
     [chat_type |-> "group", mentioned |-> FALSE, text |-> <<"hi">>, from_self |-> TRUE]}

\* the message ids handed over so far
HandedIds ==
    {feishu.handed[i].message_id : i \in 1..Len(feishu.handed)}

RECURSIVE TrimProcessed(_)
\* while len(self._processed_message_ids) > 1000: popitem(last=False)
TrimProcessed(ids) ==
    IF Len(ids) > max_processed_message_ids THEN TrimProcessed(Tail(ids)) ELSE ids

\* a handler that forwards whatever the policy
ReturnsEarlyWhateverPolicy(event, processed, policy) ==
    \/ \E i \in 1..Len(processed) : processed[i] = event.message_id
    \/ event.from_self

\* _on_message up to `await self._add_reaction`: whether the handler returns
\* before it (duplicate id, own message, group message suppressed by policy)
ReturnsEarly(event, processed, policy) ==
    \/ \E i \in 1..Len(processed) : processed[i] = event.message_id
    \/ event.from_self
    \/ event.chat_type = "group" /\ ~event.mentioned /\ policy = "mention"

\* a handler that leaves the recording of the id for later
MarkProcessedLater(event, processed) ==
    processed

\* the dedup cache after the handler's check
MarkProcessed(event, processed) ==
    IF \E i \in 1..Len(processed) : processed[i] = event.message_id
    THEN processed
    ELSE TrimProcessed(Append(processed, event.message_id))

\* _on_message after the reaction: nothing is published for empty content
PublishedAfterReaction(published, n) ==
    IF feishu.handed[n].text = <<>> THEN published ELSE Append(published, n)

\* _on_message after the reaction: a group message is appended to the
\* shared transcript when there is a store and the append does not raise
\* (stored), then the message is published
TraceAfterReaction(trace, n, stored) ==
    IF feishu.handed[n].text = <<>> THEN trace
    ELSE (IF feishu.handed[n].chat_type = "group" /\ stored
          THEN Append(trace, [op |-> "transcript", n |-> n]) ELSE trace)
         \o <<[op |-> "publish", n |-> n]>>

\* the ids a trim of the dedup cache has dropped
Evicted(event, before, after) ==
    {id \in {before[i] : i \in 1..Len(before)} \cup {event.message_id} :
        \A i \in 1..Len(after) : after[i] # id}

\* _on_message_sync: the WebSocket thread schedules _on_message(data) on the
\* event loop
OnMessageSync ==
    /\ Len(feishu.handed) < MaxEvents
    /\ \E e \in FeishuEvents, id \in HandedIds \cup {EventId(Len(feishu.handed) + 1)} :
         feishu' = [feishu EXCEPT
                      !.handed = Append(@, e @@ ("message_id" :> id)),
                      !.scheduled = Append(@, Len(feishu.handed) + 1)]
    /\ UNCHANGED <<gate, cnt, tlog, router, rfile, run, agentVars, relayVars>>

\* the event loop starts the next scheduled handler, which runs until it
\* returns or awaits the reaction call in the executor; without a client
\* _add_reaction returns at once and the handler runs to its end
HandlerStart ==
    /\ feishu.scheduled # <<>>
    /\ LET n == Head(feishu.scheduled)
           event == feishu.handed[n]
           processed == MarkProcessed(event, feishu.processed)
           evicted == feishu.evicted \cup Evicted(event, feishu.processed, processed)
       IN  IF ReturnsEarly(event, feishu.processed, feishu.group_policy)
           THEN feishu' = [feishu EXCEPT !.scheduled = Tail(@),
                                         !.processed = processed,
                                         !.evicted = evicted]
           ELSE IF feishu.has_client
                THEN feishu' = [feishu EXCEPT !.scheduled = Tail(@),
                                              !.processed = processed,
                                              !.evicted = evicted,
                                              !.reacting = @ \cup {n}]
                ELSE \E stored \in BOOLEAN :
                       feishu' = [feishu EXCEPT
                                    !.scheduled = Tail(@),
                                    !.processed = processed,
                                    !.evicted = evicted,
                                    !.published = PublishedAfterReaction(@, n),
                                    !.trace = TraceAfterReaction(@, n, stored)]
    /\ UNCHANGED <<gate, cnt, tlog, router, rfile, run, agentVars, relayVars>>

\* an executor thread finishes a reaction call: that handler resumes, parses
\* the content and publishes on the inbound bus
ReactionDone ==
    /\ \E n \in feishu.reacting, stored \in BOOLEAN :
         feishu' = [feishu EXCEPT
                      !.reacting = @ \ {n},
                      !.published = PublishedAfterReaction(@, n),
                      !.trace = TraceAfterReaction(
                                    Append(@, [op |-> "reaction", n |-> n]), n, stored)]
    /\ UNCHANGED <<gate, cnt, tlog, router, rfile, run, agentVars, relayVars>>

InitFeishu ==
    /\ feishu \in {[FeishuIdle EXCEPT !.has_client = c, !.group_policy = gp] :
                      c \in BOOLEAN, gp \in {"mention", "auto", "open"}}
    /\ router = RouterIdle
    /\ rfile = RelayFileIdle
    /\ run = RunIdle
    /\ tlog = StoreIdle
    /\ gate = GateIdle
    /\ cnt = CntIdle
    /\ AgentIdle
    /\ RelayIdle

NextFeishu ==
    \/ OnMessageSync
    \/ HandlerStart
    \/ ReactionDone

SpecFeishu == InitFeishu /\ [][NextFeishu]_vars

\* C19: of two events that were both forwarded, the one handed to the
\* channel first was published on the inbound bus first.
C19_PublishedInHandedOrder ==
    \A i, j \in 1..Len(feishu.published) :
        i < j => feishu.published[i] < feishu.published[j]

IdOf(n) == feishu.handed[n].message_id

\* how many times op was done for an event with this message_id
CountOps(op, id) ==
    Cardinality({i \in 1..Len(feishu.trace) :
                    feishu.trace[i].op = op /\ IdOf(feishu.trace[i].n) = id})

\* handlers of this message_id suspended on their reaction call
Reacting(id) ==
    Cardinality({n \in feishu.reacting : IdOf(n) = id})

\* C37: a dedup hit is a silent drop. However the deliveries interleave, a
\* message_id that the dedup cache has not dropped gets at most one inbound
\* publish, at most one transcript append and at most one reaction; and the
\* id is recorded before the handler first awaits, so that of two
\* overlapping handlers of one message_id only one forwards.
C37_DedupHitIsSilentDrop ==
    /\ [](\A id \in HandedIds \ feishu.evicted :
             /\ CountOps("publish", id) <= 1
             /\ CountOps("transcript", id) <= 1
             /\ CountOps("reaction", id) + Reacting(id) <= 1)
    /\ [][\A n \in feishu.reacting' \ feishu.reacting :
             \E i \in 1..Len(feishu.processed') : feishu.processed'[i] = IdOf(n)]_vars

\* the handler of a second delivery of a message_id ran and returned while
\* the handler of the first was suspended on its reaction call; the first
\* then published
C37_Witness ==
    /\ Len(feishu.handed) >= 2
    /\ IdOf(1) = IdOf(2)
    /\ feishu.scheduled = <<>> /\ feishu.reacting = {}
    /\ Len(feishu.trace) >= 2
    /\ feishu.trace[1] = [op |-> "reaction", n |-> 1]
    /\ CountOps("publish", IdOf(1)) = 1
    /\ IdOf(1) \notin feishu.evicted

\* this step is a handler recording an id that makes the dedup cache
\* exceed its capacity
TrimsNow ==
    /\ feishu.scheduled # <<>>
    /\ feishu.scheduled' = Tail(feishu.scheduled)
    /\ \A i \in 1..Len(feishu.processed) :
          feishu.processed[i] # IdOf(Head(feishu.scheduled))
    /\ Len(feishu.processed) + 1 > max_processed_message_ids

\* C38: the dedup cache never holds more than its capacity (1000), and
\* right after a trim set off by exceeding it, it holds exactly the
\* keep_most_recent (500) ids added last.
C38_TrimKeepsNewestHalf ==
    /\ [](Len(feishu.processed) <= max_processed_message_ids)
    /\ [][TrimsNow =>
             LET added == Append(feishu.processed, IdOf(Head(feishu.scheduled)))
             IN  feishu.processed' =
                     SubSeq(added, Len(added) - keep_most_recent + 1, Len(added))]_vars

UnmentionedInGroup(n) ==
    feishu.handed[n].chat_type = "group" /\ ~feishu.handed[n].mentioned

\* C39: under group_policy "mention" a group message that does not mention
\* this bot is suppressed at the channel: no inbound publish, no transcript
\* append, no reaction; and for every group message that is forwarded, the
\* transcript append comes before the inbound publish.
C39_MentionPolicySuppressesAtChannel ==
    /\ feishu.group_policy = "mention" =>
          \A n \in 1..Len(feishu.handed) :
              UnmentionedInGroup(n) =>
                  /\ n \notin feishu.reacting
                  /\ \A i \in 1..Len(feishu.trace) : feishu.trace[i].n # n
                  /\ \A i \in 1..Len(feishu.published) : feishu.published[i] # n
    /\ \A i, j \in 1..Len(feishu.trace) :
          (/\ feishu.trace[i].op = "transcript"
           /\ feishu.trace[j].op = "publish"
           /\ feishu.trace[i].n = feishu.trace[j].n) => i < j
    /\ \A i \in 1..Len(feishu.trace) :
          feishu.trace[i].op = "transcript" =>
              \E j \in 1..Len(feishu.trace) :
                  /\ feishu.trace[j].op = "publish"
                  /\ feishu.trace[j].n = feishu.trace[i].n

\* under policy "mention" the handler of an unmentioned group message has
\* run and left nothing, and a group message that mentions the bot has been
\* appended to the transcript and then published
C39_Witness ==
    /\ feishu.group_policy = "mention"
    /\ feishu.scheduled = <<>> /\ feishu.reacting = {}
    /\ \E n \in 1..Len(feishu.handed) :
          /\ UnmentionedInGroup(n) /\ ~feishu.handed[n].from_self
          /\ \A k \in 1..(n - 1) : IdOf(k) # IdOf(n)
    /\ \E i \in 1..Len(feishu.trace) :
          /\ feishu.trace[i].op = "transcript"
          /\ feishu.handed[feishu.trace[i].n].chat_type = "group"
          /\ i < Len(feishu.trace)
          /\ feishu.trace[i + 1] = [op |-> "publish", n |-> feishu.trace[i].n]

\* ------------------------------------------------------------------------
\* The relay log line by line (relay/backend.py, relay/subscriber.py)
\* ------------------------------------------------------------------------
MaxLines == 3           \* lines appended to outbound.jsonl in one run
LineUnits == 2          \* a line is written in at most this many pieces

\* what a line holds: an envelope, text that is not JSON, or JSON that is
\* not an object
LineKinds == {"envelope", "not-json", "not-object"}

\* the envelope publish() writes on line n for a peer's reply
LinePayload(n) ==
    Envelope(n, [content |-> AtName, sender |-> PeerId, metadata |-> <<>>])

\* the size of the file: every line but the last is whole
FileSize(lines, tail) ==
    IF lines = <<>> THEN 0 ELSE (Len(lines) - 1) * LineUnits + tail

\* json.loads on what the reader gets of line n when it starts at offset:
\* the line's value if it has the whole line, JSONDecodeError otherwise
ParsedLine(lines, tail, offset, n) ==
    LET whole == /\ offset <= (n - 1) * LineUnits
                 /\ (n < Len(lines) \/ tail = LineUnits)
    IN  IF ~whole \/ lines[n].kind = "not-json" THEN <<>>
        ELSE IF lines[n].kind = "envelope"
             THEN <<[json |-> "object", payload |-> LinePayload(n)]>>
             ELSE <<[json |-> "number", payload |-> <<>>]>>

RECURSIVE ParsedFrom(_, _, _, _)
\* the for loop over the lines from line n on
ParsedFrom(lines, tail, offset, n) ==
    IF n > Len(lines) THEN <<>>
    ELSE ParsedLine(lines, tail, offset, n) \o ParsedFrom(lines, tail, offset, n + 1)

\* GroupMessageRelay.read_new_messages: seek(last_offset), parse every line
\* up to the end of the file, write f.tell() to the offset file
ReadNewLines(lines, tail, offset) ==
    [result |-> ParsedFrom(lines, tail, offset, (offset \div LineUnits) + 1),
     offset |-> FileSize(lines, tail)]

LineWritten == rfile.lines = <<>> \/ rfile.tail = LineUnits

\* publish(): the line reaches the file in one piece
PublishLine ==
    /\ Len(rfile.lines) < MaxLines
    /\ LineWritten
    /\ rfile' = [rfile EXCEPT !.lines = Append(@, [kind |-> "envelope"]),
                              !.tail = LineUnits]
    /\ UNCHANGED <<gate, cnt, tlog, router, feishu, run, agentVars, relayVars>>

\* publish(): only the beginning of the line has reached the file
PublishLineBegins ==
    /\ Len(rfile.lines) < MaxLines
    /\ LineWritten
    /\ \E k \in 1..(LineUnits - 1) :
         rfile' = [rfile EXCEPT !.lines = Append(@, [kind |-> "envelope"]),
                                !.tail = k]
    /\ UNCHANGED <<gate, cnt, tlog, router, feishu, run, agentVars, relayVars>>

\* publish(): the rest of the line reaches the file
PublishLineEnds ==
    /\ ~LineWritten
    /\ rfile' = [rfile EXCEPT !.tail = LineUnits]
    /\ UNCHANGED <<gate, cnt, tlog, router, feishu, run, agentVars, relayVars>>

\* something other than publish() appends a line that is not an envelope
AppendMalformed ==
    /\ Len(rfile.lines) < MaxLines
    /\ LineWritten
    /\ \E kind \in LineKinds \ {"envelope"} :
         rfile' = [rfile EXCEPT !.lines = Append(@, [kind |-> kind]),
                                !.tail = LineUnits]
    /\ UNCHANGED <<gate, cnt, tlog, router, feishu, run, agentVars, relayVars>>

\* the relay_msg_ids of the envelopes among the parsed values
RECURSIVE IdsOf(_)
IdsOf(values) ==
    IF values = <<>> THEN <<>>
    ELSE (IF Head(values).json = "object"
          THEN <<Head(values).payload.relay_msg_id>> ELSE <<>>)
         \o IdsOf(Tail(values))

\* run(): read_new_messages returns a batch (or moves the offset)
ReadLines ==
    /\ rfile.batch = <<>>
    /\ LET r == ReadNewLines(rfile.lines, rfile.tail, rfile.offset)
       IN  /\ r.result # <<>> \/ r.offset # rfile.offset
           /\ rfile' = [rfile EXCEPT !.offset = r.offset, !.batch = r.result,
                                     !.returned = @ \o IdsOf(r.result)]
    /\ UNCHANGED <<gate, cnt, tlog, router, feishu, run, agentVars, relayVars>>

\* run(): _handle_message on the next value of the batch; payload.get on a
\* value that is not a dict raises, the try around the for loop catches it
\* and the rest of the batch is not handled
HandleLine ==
    /\ rfile.batch # <<>>
    /\ LET value == Head(rfile.batch)
       IN  IF value.json # "object"
           THEN rfile' = [rfile EXCEPT !.batch = <<>>]
           ELSE IF Dropped(value.payload, rfile.processed, SelfId)
                THEN rfile' = [rfile EXCEPT !.batch = Tail(@)]
                ELSE rfile' = [rfile EXCEPT
                                 !.batch = Tail(@),
                                 !.processed = StoreAdd(@, value.payload.relay_msg_id),
                                 !.injected = Append(@, value.payload.relay_msg_id)]
    /\ UNCHANGED <<gate, cnt, tlog, router, feishu, run, agentVars, relayVars>>

InitRelayFile ==
    /\ rfile = RelayFileIdle
    /\ run = RunIdle
    /\ tlog = StoreIdle
    /\ router = RouterIdle
    /\ feishu = FeishuIdle
    /\ gate = GateIdle
    /\ cnt = CntIdle
    /\ AgentIdle
    /\ RelayIdle

NextRelayFile ==
    \/ PublishLine
    \/ PublishLineBegins
    \/ PublishLineEnds
    \/ AppendMalformed
    \/ ReadLines
    \/ HandleLine

SpecRelayFile == InitRelayFile /\ [][NextRelayFile]_vars

InSeq(seq, x) ==
    \E i \in 1..Len(seq) : seq[i] = x

\* C29: once the subscriber is through with a batch, every well-formed
\* envelope that a batch returned to it has been injected, whatever lines
\* that are not envelopes (invalid JSON, or JSON that is not an object) the
\* batch held before or after it.
C29_MalformedLineSkipsOnlyItself ==
    rfile.batch = <<>> =>
        \A i \in 1..Len(rfile.returned) : InSeq(rfile.injected, rfile.returned[i])

\* C30: the saved offset always stands at the beginning of a line or at the
\* end of the last whole line, never inside a record; and once every line is
\* whole and the subscriber has read to the end of the file, every envelope
\* in it has been returned by a read, an envelope whose line was only partly
\* written when a read ran included.
C30_PartialLineNotLost ==
    /\ rfile.offset % LineUnits = 0
    /\ (LineWritten /\ rfile.offset = FileSize(rfile.lines, rfile.tail)) =>
          \A n \in 1..Len(rfile.lines) :
              rfile.lines[n].kind = "envelope" => InSeq(rfile.returned, RelayId(n))

\* ------------------------------------------------------------------------
\* The shared group transcript (transcript/store.py)
\* ------------------------------------------------------------------------
MaxEntries == 3         \* lines written to one transcript file
MaxTs == 2              \* timestamps range over 1..MaxTs
MaxRecent == 2          \* max_messages ranges over 0..MaxRecent

\* the message ids append is called with; "none" stands for None
MessageIds == {"none", "a", "b"}

\* append(): the line written; `at` is a history field, the number of the
\* line in the file, and the content is taken to be that number
TranscriptEntry(at, ts, message_id) ==
    [kind |-> "entry", at |-> at, role |-> "user", content |-> at,
     sender |-> "u1", ts |-> ts]
      @@ (IF message_id = "none" THEN <<>> ELSE ("message_id" :> message_id))

\* a line json.loads fails on
Unparsable(at) ==
    [kind |-> "unparsable", at |-> at]

RECURSIVE ParsedEntries(_, _)
\* the loop over the lines: unparsable lines are passed over, and so is an
\* entry whose message_id has been seen
ParsedEntries(lines, seen) ==
    IF lines = <<>> THEN <<>>
    ELSE LET line == Head(lines)
             msg_id == IF line.kind = "entry" THEN Get(line, "message_id", "none")
                       ELSE "none"
         IN  IF line.kind # "entry" \/ (msg_id # "none" /\ msg_id \in seen)
             THEN ParsedEntries(Tail(lines), seen)
             ELSE <<line>> \o ParsedEntries(Tail(lines),
                                            IF msg_id # "none" THEN seen \cup {msg_id}
                                            ELSE seen)

\* the place of e in a list sorted by ts: after the entries whose ts is not
\* greater
InsertByTs(sorted, e) ==
    LET k == Cardinality({i \in 1..Len(sorted) : sorted[i].ts <= e.ts})
    IN  SubSeq(sorted, 1, k) \o <<e>> \o SubSeq(sorted, k + 1, Len(sorted))

RECURSIVE SortedByTs(_)
\* sorted(parsed, key=ts): stable
SortedByTs(parsed) ==
    IF parsed = <<>> THEN <<>>
    ELSE InsertByTs(SortedByTs(SubSeq(parsed, 1, Len(parsed) - 1)),
                    parsed[Len(parsed)])

\* seq[-n:] for n >= 0: -0 is 0, so that n = 0 gives the whole list
SliceFromMinus(seq, n) ==
    IF n = 0 \/ n >= Len(seq) THEN seq
    ELSE SubSeq(seq, Len(seq) - n + 1, Len(seq))

\* GroupTranscriptStore.get_recent
get_recent(lines, max_messages) ==
    LET recent == SliceFromMinus(SortedByTs(ParsedEntries(lines, {})), max_messages)
    IN  [i \in 1..Len(recent) |->
            [role |-> recent[i].role, content |-> recent[i].content,
             sender |-> recent[i].sender]]

\* append() by the channel or the relay subscriber of any agent
AppendEntry ==
    /\ Len(tlog.lines) < MaxEntries
    /\ \E ts \in 1..MaxTs, message_id \in MessageIds :
         tlog' = [StoreIdle EXCEPT
                    !.lines = Append(tlog.lines,
                                     TranscriptEntry(Len(tlog.lines) + 1, ts, message_id))]
    /\ UNCHANGED <<gate, cnt, router, feishu, rfile, run, agentVars, relayVars>>

\* a line that is not JSON gets into the file
AppendUnparsable ==
    /\ Len(tlog.lines) < MaxEntries
    /\ tlog' = [StoreIdle EXCEPT
                  !.lines = Append(tlog.lines, Unparsable(Len(tlog.lines) + 1))]
    /\ UNCHANGED <<gate, cnt, router, feishu, rfile, run, agentVars, relayVars>>

\* a reader calls get_recent(key, max_messages)
GetRecent ==
    /\ \E max_messages \in 0..MaxRecent :
         /\ max_messages # tlog.n
         /\ tlog' = [tlog EXCEPT !.n = max_messages,
                                 !.result = get_recent(tlog.lines, max_messages)]
    /\ UNCHANGED <<gate, cnt, router, feishu, rfile, run, agentVars, relayVars>>

InitStore ==
    /\ tlog = StoreIdle
    /\ router = RouterIdle
    /\ feishu = FeishuIdle
    /\ rfile = RelayFileIdle
    /\ run = RunIdle
    /\ gate = GateIdle
    /\ cnt = CntIdle
    /\ AgentIdle
    /\ RelayIdle

NextStore ==
    \/ AppendEntry
    \/ AppendUnparsable
    \/ GetRecent

SpecStore == InitStore /\ [][NextStore]_vars

\* the numbers of the lines that are entries and do not repeat the
\* message_id of an earlier entry
Kept ==
    {i \in 1..Len(tlog.lines) :
        /\ tlog.lines[i].kind = "entry"
        /\ \/ "message_id" \notin DOMAIN tlog.lines[i]
           \/ \A j \in 1..(i - 1) :
                 \/ tlog.lines[j].kind # "entry"
                 \/ "message_id" \notin DOMAIN tlog.lines[j]
                 \/ tlog.lines[j].message_id # tlog.lines[i].message_id}

\* line i comes before line j when sorted by ts, lines of equal ts staying
\* in the order of the file
Before(i, j) ==
    \/ tlog.lines[i].ts < tlog.lines[j].ts
    \/ tlog.lines[i].ts = tlog.lines[j].ts /\ i < j

\* the kept lines that have fewer than n kept lines after them
LastKept(n) ==
    {i \in Kept : Cardinality({j \in Kept : Before(i, j)}) < n}

\* C40: get_recent(key, n) returns the last n entries of the transcript
\* once every later entry whose message_id repeats an earlier one has been
\* removed and the rest sorted by ts, entries of equal ts keeping their
\* order; entries without a message_id are never removed; unparsable
\* lines are ignored.
C40_RecentIsTailOfDedupedSorted ==
    tlog.n >= 0 =>
        /\ Len(tlog.result) = Cardinality(LastKept(tlog.n))
        /\ \A p \in 1..Len(tlog.result) : tlog.result[p].content \in LastKept(tlog.n)
        /\ \A p, q \in 1..Len(tlog.result) :
              p < q => Before(tlog.result[p].content, tlog.result[q].content)

=============================================================================
